---- MODULE Spec2Model ----
(***************************************************************************)
(* Model of the Gemini service of the quiz generator: extractTextFromPdf,  *)
(* generateQuiz and evaluateAnswer.  The repository holds two versions of  *)
(* the service: the one with the two-model fallback and the marks table    *)
(* (src/unnamed/part_000, "current") and the single-model one              *)
(* (src/services/geminiService.ts, "legacy").  Both are modelled; impl     *)
(* records which one a call runs.                                          *)
(***************************************************************************)
EXTENDS Integers, Sequences, FiniteSets, Bags, TLC

VARIABLES
    env,          \* the environment: [API_KEY, VITE_API_KEY], "" when unset
    impl,         \* "current" | "legacy": the version of the service called
    op,           \* "none" | "generateQuiz" | "evaluateAnswer" | "extractTextFromPdf"
    pc,           \* position of the call: "idle", an await point, "returned", "thrown"
    args,         \* the arguments of the call in progress
    requests,     \* the model requests this call has issued, in order
    responses,    \* the model's replies to them, in order
    primaryError, \* the error caught by the outer catch of generateQuiz
    result,       \* the value the call returned
    error,        \* the message of the error the call threw
    parked,       \* a second call in progress, suspended at one of its awaits
    app,          \* the state of the App component (its useState cells)
    view,         \* the state of the QuizView component
    calls,        \* the handlers of the components suspended at an await, a bag
    storage,      \* localStorage: the quiz library and the quiz progress
    now           \* Date.now(), in milliseconds

\* the variables of one call of the service
callVars == <<op, pc, args, requests, responses, primaryError, result, error>>

\* the variables of the components
uiVars == <<app, view, calls, storage, now>>

vars == <<env, impl, callVars, parked, uiVars>>

-----------------------------------------------------------------------------
(* Bounds *)

MaxItems == 2          \* longest 'questions' array in a model response
MaxNumQuestions == 2   \* largest numQuestions argument
MaxScore == 7          \* largest score in an evaluation response
MaxPages == 2          \* most pages of an uploaded PDF
MaxCalls == 1          \* most handlers of the components suspended at once
MaxLibrary == 2        \* most quizzes in the library
MaxClock == 60000      \* the length of a session, in milliseconds

-----------------------------------------------------------------------------
(* JSON values as JavaScript sees them after JSON.parse *)

JUndefined == [t |-> "undefined"]
JNull == [t |-> "null"]
JStr(s) == [t |-> "str", s |-> s]
JNum(n) == [t |-> "num", n |-> n]
JArr(a) == [t |-> "arr", a |-> a]
JObj(o) == [t |-> "obj", o |-> o]

\* v.f : a property read; undefined when v has no such property
Get(v, f) == IF v.t = "obj" /\ f \in DOMAIN v.o THEN v.o[f] ELSE JUndefined

\* JavaScript truthiness
Truthy(v) ==
    CASE v.t = "undefined" -> FALSE
      [] v.t = "null" -> FALSE
      [] v.t = "str" -> v.s # ""
      [] v.t = "num" -> v.n # 0
      [] OTHER -> TRUE

\* a || b
OrElse(a, b) == IF Truthy(a) THEN a ELSE b

\* the outcome of an expression: a value, or a thrown error with its message
Ok(v) == [ok |-> TRUE, v |-> v]
Throw(m) == [ok |-> FALSE, message |-> m]

NoValue == [t |-> "none"]
NoError == "<none>"

-----------------------------------------------------------------------------
(* Credential lookup *)

ApiKeyMissingMsg == "API Key is missing. Please set the 'API_KEY' (or 'VITE_API_KEY') environment variable in your Netlify Site Settings."
LegacyApiKeyMissingMsg == "API_KEY environment variable not set"

\* the lookup falling back to an empty key instead of throwing
getApiKeyOrEmpty(e) ==
    IF e.API_KEY # "" THEN Ok(e.API_KEY)
    ELSE IF e.VITE_API_KEY # "" THEN Ok(e.VITE_API_KEY)
    ELSE Ok("")

\* getApiKey: process.env.API_KEY, else import.meta.env.VITE_API_KEY, else throw
getApiKey(e) ==
    IF e.API_KEY # "" THEN Ok(e.API_KEY)
    ELSE IF e.VITE_API_KEY # "" THEN Ok(e.VITE_API_KEY)
    ELSE Throw(ApiKeyMissingMsg)

\* the legacy guard: if (!process.env.API_KEY) throw
legacyApiKey(e) ==
    IF e.API_KEY = "" THEN Throw(LegacyApiKeyMissingMsg) ELSE Ok(e.API_KEY)

-----------------------------------------------------------------------------
(* generateQuiz: marks table, prompt, response processing *)

SourceTextLimit == 30000

\* the period of the quiz view's interval timer, in milliseconds
TickPeriod == 1000

getMarksForType(type) ==
    CASE type = "MCQ" -> 1
      [] type = "FillBlanks" -> 1
      [] type = "VeryShort" -> 2
      [] type = "Short" -> 3
      [] type = "CaseBased" -> 4
      [] type = "ExtractBased" -> 4
      [] type = "Long" -> 5
      [] OTHER -> 1

\* String.prototype.substring(from, to) for 0 <= from <= to
Substring(s, from, to) ==
    LET hi == IF to > Len(s) THEN Len(s) ELSE to
    IN  IF from >= hi THEN "" ELSE SubSeq(s, from + 1, hi)

\* examContext ? `"${examContext}"` : "Standard Board Exam"
contextLabel(examContext) ==
    IF examContext # "" THEN "\"" \o examContext \o "\"" ELSE "Standard Board Exam"

typeInstructions(questionType, examContext) ==
    LET label == contextLabel(examContext) IN
    IF questionType = "MCQ" THEN
        "Generate Multiple Choice Questions suitable for " \o label
        \o ". Provide 4 options and 1 correct answer."
    ELSE IF questionType = "FillBlanks" THEN
        "Generate Fill in the Blank questions suitable for " \o label
        \o ". The question text must contain \"______\" where the word goes. 'correctAnswer' must be the missing word(s). Do not provide options."
    ELSE IF questionType \in {"Short", "VeryShort", "Long", "Brief"} THEN
        "Generate " \o questionType \o " Answer Type Questions. CRITICAL: You are an expert Examiner for "
        \o label \o ". - You MUST provide a 'modelAnswer' field. - The 'modelAnswer' must be a \"Topper's Answer\" that scores full marks in "
        \o label \o ". - Analyze strictly based on " \o label
        \o " marking schemes: use point-wise answers, highlight keywords, and structure the answer exactly how a student needs to write it. - Do not just copy the PDF text. Synthesize a perfect exam answer. - 'options' and 'correctAnswer' fields should be empty/null."
    ELSE IF questionType \in {"CaseBased", "ExtractBased"} THEN
        "Generate " \o questionType \o " questions suitable for " \o label
        \o ". - Select a relevant paragraph or case from the text and put it in the 'context' field. - Ask a question based on that context. - Provide a 'modelAnswer' that yields full marks based on the context and "
        \o label \o " standards."
    ELSE ""

legacyTypeInstructions(questionType) ==
    IF questionType = "MCQ" THEN
        "Generate Multiple Choice Questions. Provide 4 options and 1 correct answer."
    ELSE IF questionType = "FillBlanks" THEN
        "Generate Fill in the Blank questions. The question text must contain \"______\" where the word goes. 'correctAnswer' must be the missing word(s). Do not provide options."
    ELSE IF questionType \in {"Short", "VeryShort", "Long", "Brief"} THEN
        "Generate " \o questionType
        \o " Answer Type Questions. CRITICAL: You are an expert Board Examiner (e.g., CBSE Class 10/12). - You MUST provide a 'modelAnswer' field. - The 'modelAnswer' must be a \"Topper's Answer\". - Analyze previous board topper sheets: use point-wise answers, highlight keywords, and structure the answer exactly how a student needs to write it to get FULL MARKS. - Do not just copy the PDF text. Synthesize a perfect exam answer. - 'options' and 'correctAnswer' fields should be empty/null."
    ELSE IF questionType \in {"CaseBased", "ExtractBased"} THEN
        "Generate " \o questionType
        \o " questions. - Select a relevant paragraph or case from the text and put it in the 'context' field. - Ask a question based on that context. - Provide a 'modelAnswer' that yields full marks based on the context."
    ELSE ""

\* the text embedded whole, without the substring
embeddedTextWhole(pdfText) == pdfText

\* the text embedded between the --- lines of the prompt
embeddedText(pdfText) == Substring(pdfText, 0, SourceTextLimit)

\* the prompt template, given the instructions of the version; the line
\* breaks and indentation of the template literal are written as single spaces
promptTemplate(a, instructions) ==
    "Role: You are an expert Exam Setter and Examiner for "
    \o (IF a.examContext # "" THEN a.examContext ELSE "General Education")
    \o ". Task: Create a quiz/test based on the provided text. Configuration: - Question Type: "
    \o a.questionType
    \o " - Quantity: " \o ToString(a.numQuestions) \o " questions - Difficulty: " \o a.difficulty
    \o " - Exam Context/Focus: "
    \o (IF a.examContext # "" THEN a.examContext ELSE "Standard Academic Standard")
    \o " Instructions: " \o instructions
    \o " General Rules: - Ensure questions are relevant to the provided text. - Explanation field should clarify the concept for revision. Text Content: --- "
    \o embeddedText(a.pdfText) \o " ---"

quizPrompt(a) == promptTemplate(a, typeInstructions(a.questionType, a.examContext))
legacyQuizPrompt(a) == promptTemplate(a, legacyTypeInstructions(a.questionType))

quizConfig == [responseMimeType |-> "application/json", responseSchema |-> "quizSchema"]

PrimaryModel == "gemini-3-pro-preview"
SecondaryModel == "gemini-2.5-flash"
LegacyQuizModel == "gemini-flash-latest"

\* the argument of ai.models.generateContent
quizRequest(model, prompt) == [model |-> model, contents |-> prompt, config |-> quizConfig]

InvalidFormatMsg == "Invalid response format from AI. Expected a 'questions' array."
SyntaxErrorMsg == "Unexpected token in JSON"
TypeErrorMsg == "Cannot read properties of undefined"
LegacyGenerateFailedMsg == "Failed to generate quiz. The AI model might be unavailable or the content could not be processed."

\* A reply of ai.models.generateContent: the promise rejects with an error, or
\* resolves to a response whose text is undefined, or to one with a text; a
\* text is what JSON.parse makes of it after trim(): a syntax error or a value.
Rejected(m) == [kind |-> "reject", message |-> m]
NoText == [kind |-> "notext"]
Garbage == [kind |-> "text", parses |-> FALSE]
Json(v) == [kind |-> "text", parses |-> TRUE, value |-> v]

\* JSON.parse(jsonString)
JSONparse(r) == IF r.parses THEN Ok(r.value) ELSE Throw(SyntaxErrorMsg)

\* await generateContent(...) followed by response.text.trim()
responseText(r) ==
    CASE r.kind = "reject" -> Throw(r.message)
      [] r.kind = "notext" -> Throw(TypeErrorMsg)
      [] OTHER -> Ok(r)

\* the mapping with the type the model echoed back, when it gave one
mapQuestionTrustingType(q, questionType) ==
    [ type |-> IF Get(q, "type").t = "str" THEN Get(q, "type").s ELSE questionType,
      question |-> Get(q, "question"),
      options |-> OrElse(Get(q, "options"), JArr(<<>>)),
      correctAnswer |-> OrElse(Get(q, "correctAnswer"), JStr("")),
      modelAnswer |-> OrElse(Get(q, "modelAnswer"), JStr("")),
      context |-> OrElse(Get(q, "context"), JStr("")),
      explanation |-> OrElse(Get(q, "explanation"), JStr("")),
      marks |-> getMarksForType(questionType) ]

\* the mapping without the || defaults of correctAnswer and options
mapQuestionWithoutDefaults(q, questionType) ==
    [ type |-> questionType,
      question |-> Get(q, "question"),
      options |-> Get(q, "options"),
      correctAnswer |-> Get(q, "correctAnswer"),
      modelAnswer |-> OrElse(Get(q, "modelAnswer"), JStr("")),
      context |-> OrElse(Get(q, "context"), JStr("")),
      explanation |-> OrElse(Get(q, "explanation"), JStr("")),
      marks |-> getMarksForType(questionType) ]

\* one element of parsed.questions mapped to a QuizQuestion (current version)
mapQuestion(q, questionType) ==
    [ type |-> questionType,
      question |-> Get(q, "question"),
      options |-> OrElse(Get(q, "options"), JArr(<<>>)),
      correctAnswer |-> OrElse(Get(q, "correctAnswer"), JStr("")),
      modelAnswer |-> OrElse(Get(q, "modelAnswer"), JStr("")),
      context |-> OrElse(Get(q, "context"), JStr("")),
      explanation |-> OrElse(Get(q, "explanation"), JStr("")),
      marks |-> getMarksForType(questionType) ]

\* the legacy mapping: the same without marks
legacyMapQuestion(q, questionType) ==
    [ type |-> questionType,
      question |-> Get(q, "question"),
      options |-> OrElse(Get(q, "options"), JArr(<<>>)),
      correctAnswer |-> OrElse(Get(q, "correctAnswer"), JStr("")),
      modelAnswer |-> OrElse(Get(q, "modelAnswer"), JStr("")),
      context |-> OrElse(Get(q, "context"), JStr("")),
      explanation |-> OrElse(Get(q, "explanation"), JStr("")) ]

\* reading a property of null or undefined throws a TypeError
ThrowsOnRead(v) == v.t \in {"null", "undefined"}

\* the check taking a missing 'questions' array for an empty one
parsedQuestionsLenient(jsonString) ==
    LET p == JSONparse(jsonString) IN
    IF ~p.ok THEN p
    ELSE IF ThrowsOnRead(p.v) THEN Throw(TypeErrorMsg)
    ELSE LET qs == Get(p.v, "questions") IN
         IF ~Truthy(qs) \/ qs.t # "arr" THEN Ok(<<>>) ELSE Ok(qs.a)

\* JSON.parse and the check of the 'questions' array: the array, or a throw
parsedQuestions(jsonString) ==
    LET p == JSONparse(jsonString) IN
    IF ~p.ok THEN p
    ELSE IF ThrowsOnRead(p.v) THEN Throw(TypeErrorMsg)
    ELSE LET qs == Get(p.v, "questions") IN
         IF ~Truthy(qs) \/ qs.t # "arr" THEN Throw(InvalidFormatMsg) ELSE Ok(qs.a)

\* the mapping that drops the elements it cannot read instead of throwing
processResponseSkipping(jsonString, questionType) ==
    LET p == parsedQuestions(jsonString) IN
    IF ~p.ok THEN p
    ELSE LET kept == SelectSeq(p.v, LAMBDA q : ~ThrowsOnRead(q))
         IN  Ok([i \in 1..Len(kept) |-> mapQuestion(kept[i], questionType)])

\* processResponse: parse, check, map every element
processResponse(jsonString, questionType) ==
    LET p == parsedQuestions(jsonString) IN
    IF ~p.ok THEN p
    ELSE IF \E i \in 1..Len(p.v) : ThrowsOnRead(p.v[i]) THEN Throw(TypeErrorMsg)
    ELSE Ok([i \in 1..Len(p.v) |-> mapQuestion(p.v[i], questionType)])

\* the same steps inlined in the legacy try block
legacyProcessResponse(jsonString, questionType) ==
    LET p == parsedQuestions(jsonString) IN
    IF ~p.ok THEN p
    ELSE IF \E i \in 1..Len(p.v) : ThrowsOnRead(p.v[i]) THEN Throw(TypeErrorMsg)
    ELSE Ok([i \in 1..Len(p.v) |-> legacyMapQuestion(p.v[i], questionType)])

\* one attempt of the current version: the request's reply, then processResponse
attempt(r, questionType) ==
    LET t == responseText(r) IN IF t.ok THEN processResponse(t.v, questionType) ELSE t

\* the body of the legacy try block
legacyAttempt(r, questionType) ==
    LET t == responseText(r) IN IF t.ok THEN legacyProcessResponse(t.v, questionType) ELSE t

\* the detail with the primary failure preferred
failureDetailPrimaryFirst(retryMessage, primaryMessage) ==
    IF primaryMessage # "" THEN primaryMessage
    ELSE IF retryMessage # "" THEN retryMessage
    ELSE "Unknown error"

\* retryError.message || error.message || "Unknown error"
failureDetail(retryMessage, primaryMessage) ==
    IF retryMessage # "" THEN retryMessage
    ELSE IF primaryMessage # "" THEN primaryMessage
    ELSE "Unknown error"

GenerationFailedPrefix == "AI Generation Failed: "
GenerationFailedSuffix == ". Please check your API Key and Quota."

generationFailedMessage(retryMessage, primaryMessage) ==
    GenerationFailedPrefix \o failureDetail(retryMessage, primaryMessage) \o GenerationFailedSuffix

-----------------------------------------------------------------------------
(* evaluateAnswer *)

EvaluationModel == "gemini-3-pro-preview"
LegacyEvaluationModel == "gemini-2.5-flash"
LegacyEvaluateFailedMsg == "Failed to evaluate answer. Please try again."

evaluationConfig ==
    [responseMimeType |-> "application/json", responseSchema |-> "evaluationSchema"]

evaluationPrompt(a) ==
    "Role: Strict CBSE Board Examiner. Task: Grade the student's handwritten answer (image) against the reference Topper Answer. Question: "
    \o a.question \o " Reference Topper Answer: " \o a.modelAnswer
    \o " Maximum Marks: " \o ToString(a.maxMarks)
    \o " Instructions: 1. Read the handwriting in the image. 2. Compare it strictly with the Topper Answer. 3. Award marks based on CBSE step-marking (keywords, definition, structure). 4. List where marks were cut (mistakes). 5. Provide brief advice."

evaluationRequest(model, mimeType, a) ==
    [ model |-> model,
      contents |-> [parts |-> << [inlineData |-> [mimeType |-> mimeType, data |-> a.imageBase64]],
                                 [text |-> evaluationPrompt(a)] >>],
      config |-> evaluationConfig ]

\* the try block with the score clamped into 0..maxMarks of the reply
evaluationOutcomeClamped(r) ==
    LET t == responseText(r)
        p == JSONparse(t.v)
        sc == Get(p.v, "score")
        mm == Get(p.v, "maxMarks")
    IN  IF ~t.ok THEN t
        ELSE IF ~p.ok THEN p
        ELSE IF sc.t = "num" /\ mm.t = "num"
             THEN Ok(JObj([p.v.o EXCEPT !.score =
                     JNum(IF sc.n > mm.n THEN mm.n ELSE IF sc.n < 0 THEN 0 ELSE sc.n)]))
             ELSE p

\* the try block of evaluateAnswer: the reply's text, parsed and returned as it is
evaluationOutcome(r) ==
    LET t == responseText(r) IN IF t.ok THEN JSONparse(t.v) ELSE t

\* `Evaluation failed: ${error.message || "Please check your API Key."}`
evaluationFailedMessage(message) ==
    "Evaluation failed: " \o (IF message # "" THEN message ELSE "Please check your API Key.")

-----------------------------------------------------------------------------
(* extractTextFromPdf *)

RECURSIVE Join(_)
\* items.join(' ')
Join(items) ==
    IF Len(items) = 0 THEN ""
    ELSE IF Len(items) = 1 THEN items[1]
    ELSE items[1] \o " " \o Join(Tail(items))

RECURSIVE pagesText(_)
\* textContent += page items joined, page after page
pagesText(pages) ==
    IF Len(pages) = 0 THEN "" ELSE Join(pages[1]) \o pagesText(Tail(pages))

\* what the FileReader and pdf.js callbacks make of a file
extractOutcome(file) ==
    CASE file.read = "error" -> Throw("Error reading file")
      [] file.read = "empty" -> Throw("Failed to read file")
      [] ~file.parses -> Throw("Failed to parse PDF: " \o file.parseError)
      [] OTHER -> Ok(pagesText(file.pages))

-----------------------------------------------------------------------------
(* Inputs: arguments and model replies *)

QuestionTypes ==
    {"MCQ", "FillBlanks", "VeryShort", "Short", "Long", "CaseBased", "ExtractBased", "Brief"}

PdfTexts == {"", "Cells are the basic unit of life."}

\* every question type, with a bare configuration and with a full one
QuizArgs ==
    {[ pdfText |-> "", numQuestions |-> 1, difficulty |-> "Easy",
       questionType |-> qt, examContext |-> "" ] : qt \in QuestionTypes}
    \cup {[ pdfText |-> txt, numQuestions |-> MaxNumQuestions, difficulty |-> "Hard",
            questionType |-> qt, examContext |-> "CBSE Class 10" ] :
            qt \in QuestionTypes, txt \in PdfTexts \ {""}}

\* error messages of a rejected request; "" is an error without a message
RejectMessages == {"", "quota exceeded"}

\* elements a model may put in 'questions': a full MCQ that claims another
\* type and its own marks, a sparse element, an empty object, null
FullElement ==
    JObj([ type |-> JStr("Long"), question |-> JStr("Q1"),
           options |-> JArr(<<JStr("A"), JStr("B"), JStr("C"), JStr("D")>>),
           correctAnswer |-> JStr("A"), explanation |-> JStr("because"), marks |-> JNum(9) ])
SparseElement ==
    JObj([ type |-> JStr("MCQ"), question |-> JStr("Q2"), correctAnswer |-> JNull,
           modelAnswer |-> JStr(""), context |-> JStr("passage") ])
EmptyElement == JObj(<<>>)

Elements == {FullElement, SparseElement, EmptyElement, JNull}

ElementLists == UNION {[1..n -> Elements] : n \in 0..MaxItems}

QuizReplies ==
    {Rejected(m) : m \in RejectMessages}
    \cup {NoText, Garbage, Json(JNull), Json(JObj(<<>>)), Json(JObj([questions |-> JStr("none")]))}
    \cup {Json(JObj([questions |-> JArr(l)])) : l \in ElementLists}

EvaluationArgs ==
    [ question : {"Q1"}, modelAnswer : {"topper answer"}, imageBase64 : {"aW1n"},
      mimeType : {"image/png"}, maxMarks : 1..5 ]

LegacyEvaluationArgs ==
    [ question : {"Q1"}, modelAnswer : {"topper answer"}, imageBase64 : {"aW1n"},
      maxMarks : {2, 3, 5} ]

EvaluationReplies ==
    {Rejected(m) : m \in RejectMessages}
    \cup {NoText, Garbage, Json(JNull), Json(JObj([score |-> JNum(1)]))}
    \cup {Json(JObj([ score |-> JNum(sc), maxMarks |-> JNum(mm),
                      mistakes |-> JArr(<<JStr("no diagram")>>), feedback |-> JStr("revise") ])) :
            sc \in (-1)..MaxScore, mm \in {3, 5}}

Pages == {<<>>, <<"Cells">>, <<"are", "alive.">>}

Files ==
    {[read |-> "error"], [read |-> "empty"],
     [read |-> "ok", parses |-> FALSE, parseError |-> "Invalid PDF structure"]}
    \cup {[read |-> "ok", parses |-> TRUE, pages |-> ps] :
            ps \in UNION {[1..n -> Pages] : n \in 0..MaxPages}}

Envs == [API_KEY : {"", "key-a"}, VITE_API_KEY : {"", "key-b"}]

-----------------------------------------------------------------------------
(* The calls *)

\* the App component as mounted: the initial values of its useState cells
InitialApp ==
    [ appState |-> "setup", quizData |-> <<>>, currentQuizName |-> "",
      userAnswers |-> <<>>, currentQuestionIndex |-> 0, quizExpiryTime |-> JNull,
      error |-> JNull, isOverviewOpen |-> FALSE ]

\* the QuizView component as mounted, before its effects: no file, no
\* evaluation, no time shown and no interval timer (timerSetAt: when the
\* interval was started or last ran)
InitialView ==
    [ selectedFile |-> JNull, isEvaluating |-> FALSE, evaluation |-> JNull,
      timeLeft |-> JNull, timerSetAt |-> JNull ]

\* localStorage with neither key set
EmptyStorage ==
    [ communityQuizzes |-> JNull, pdfQuizProgress |-> JNull,
      quizAppUsersDB |-> JNull, quizAppUserSession |-> JNull ]

Init ==
    /\ env \in Envs
    /\ impl = "current"
    /\ op = "none"
    /\ pc = "idle"
    /\ args = NoValue
    /\ requests = <<>>
    /\ responses = <<>>
    /\ primaryError = NoError
    /\ result = NoValue
    /\ error = NoError
    /\ parked = NoValue
    /\ app = InitialApp
    /\ view = InitialView
    /\ calls = EmptyBag
    /\ storage = EmptyStorage
    /\ now = 0

\* the call returns v
Return(v) ==
    /\ pc' = "returned"
    /\ result' = v
    /\ error' = NoError

\* the call throws new Error(m)
Raise(m) ==
    /\ pc' = "thrown"
    /\ result' = NoValue
    /\ error' = m

\* the call issues a request and waits for the reply
Send(req, at) ==
    /\ requests' = Append(requests, req)
    /\ pc' = at
    /\ UNCHANGED <<result, error>>

\* generateQuiz up to its first await
generateQuiz(a) ==
    /\ pc = "idle"
    /\ impl' = "current"
    /\ op' = "generateQuiz"
    /\ args' = a
    /\ IF getApiKey(env).ok
          THEN Send(quizRequest(PrimaryModel, quizPrompt(a)), "awaitPrimary")
          ELSE Raise(getApiKey(env).message) /\ UNCHANGED requests
    /\ UNCHANGED <<env, responses, primaryError>>
    /\ UNCHANGED <<parked, uiVars>>

\* the primary request settles: return its records, or catch and send the
\* same request to the secondary model
primaryReplies(r) ==
    /\ pc = "awaitPrimary"
    /\ responses' = Append(responses, r)
    /\ LET out == attempt(r, args.questionType) IN
       IF out.ok
          THEN Return(out.v) /\ UNCHANGED <<requests, primaryError>>
          ELSE /\ primaryError' = out.message
               /\ Send(quizRequest(SecondaryModel, quizPrompt(args)), "awaitSecondary")
    /\ UNCHANGED <<env, impl, op, args>>
    /\ UNCHANGED <<parked, uiVars>>

\* the fallback, with the caught primary failure surfaced after it succeeded
secondaryRepliesSurfacingPrimary(r) ==
    /\ pc = "awaitSecondary"
    /\ responses' = Append(responses, r)
    /\ LET out == attempt(r, args.questionType) IN
       Raise(generationFailedMessage(IF out.ok THEN "" ELSE out.message, primaryError))
    /\ UNCHANGED <<env, impl, op, args, requests, primaryError>>
    /\ UNCHANGED <<parked, uiVars>>

\* the fallback, retrying the secondary model once more when it fails
secondaryRepliesRetrying(r) ==
    /\ pc = "awaitSecondary"
    /\ responses' = Append(responses, r)
    /\ LET out == attempt(r, args.questionType) IN
       IF out.ok
          THEN Return(out.v) /\ UNCHANGED requests
          ELSE IF Len(requests) < 3
                  THEN Send(quizRequest(SecondaryModel, quizPrompt(args)), "awaitSecondary")
                  ELSE Raise(generationFailedMessage(out.message, primaryError))
                       /\ UNCHANGED requests
    /\ UNCHANGED <<env, impl, op, args, primaryError>>
    /\ UNCHANGED <<parked, uiVars>>

\* the secondary request settles: return its records, or throw
secondaryReplies(r) ==
    /\ pc = "awaitSecondary"
    /\ responses' = Append(responses, r)
    /\ LET out == attempt(r, args.questionType) IN
       IF out.ok
          THEN Return(out.v)
          ELSE Raise(generationFailedMessage(out.message, primaryError))
    /\ UNCHANGED <<env, impl, op, args, requests, primaryError>>
    /\ UNCHANGED <<parked, uiVars>>

\* the legacy generateQuiz up to its await
legacyGenerateQuiz(a) ==
    /\ pc = "idle"
    /\ impl' = "legacy"
    /\ op' = "generateQuiz"
    /\ args' = a
    /\ IF legacyApiKey(env).ok
          THEN Send(quizRequest(LegacyQuizModel, legacyQuizPrompt(a)), "awaitLegacyQuiz")
          ELSE Raise(legacyApiKey(env).message) /\ UNCHANGED requests
    /\ UNCHANGED <<env, responses, primaryError>>
    /\ UNCHANGED <<parked, uiVars>>

\* the legacy request settles: return the records, or throw the fixed message
legacyQuizReplies(r) ==
    /\ pc = "awaitLegacyQuiz"
    /\ responses' = Append(responses, r)
    /\ LET out == legacyAttempt(r, args.questionType) IN
       IF out.ok THEN Return(out.v) ELSE Raise(LegacyGenerateFailedMsg)
    /\ UNCHANGED <<env, impl, op, args, requests, primaryError>>
    /\ UNCHANGED <<parked, uiVars>>

\* evaluateAnswer up to its await
evaluateAnswer(a) ==
    /\ pc = "idle"
    /\ impl' = "current"
    /\ op' = "evaluateAnswer"
    /\ args' = a
    /\ IF getApiKey(env).ok
          THEN Send(evaluationRequest(EvaluationModel, a.mimeType, a), "awaitEvaluation")
          ELSE Raise(getApiKey(env).message) /\ UNCHANGED requests
    /\ UNCHANGED <<env, responses, primaryError>>
    /\ UNCHANGED <<parked, uiVars>>

\* the evaluation retried against the secondary model when the request fails
evaluationRepliesFallingBack(r) ==
    /\ pc = "awaitEvaluation"
    /\ responses' = Append(responses, r)
    /\ LET out == evaluationOutcome(r) IN
       IF out.ok THEN Return(out.v) /\ UNCHANGED requests
       ELSE IF Len(requests) < 2
            THEN Send(evaluationRequest(SecondaryModel, args.mimeType, args), "awaitEvaluation")
            ELSE Raise(evaluationFailedMessage(out.message)) /\ UNCHANGED requests
    /\ UNCHANGED <<env, impl, op, args, primaryError>>
    /\ UNCHANGED <<parked, uiVars>>

\* the evaluation request settles: return the parsed value, or throw
evaluationReplies(r) ==
    /\ pc = "awaitEvaluation"
    /\ responses' = Append(responses, r)
    /\ LET out == evaluationOutcome(r) IN
       IF out.ok THEN Return(out.v) ELSE Raise(evaluationFailedMessage(out.message))
    /\ UNCHANGED <<env, impl, op, args, requests, primaryError>>
    /\ UNCHANGED <<parked, uiVars>>

\* the legacy evaluateAnswer up to its await
legacyEvaluateAnswer(a) ==
    /\ pc = "idle"
    /\ impl' = "legacy"
    /\ op' = "evaluateAnswer"
    /\ args' = a
    /\ IF legacyApiKey(env).ok
          THEN Send(evaluationRequest(LegacyEvaluationModel, "image/jpeg", a),
                    "awaitLegacyEvaluation")
          ELSE Raise(legacyApiKey(env).message) /\ UNCHANGED requests
    /\ UNCHANGED <<env, responses, primaryError>>
    /\ UNCHANGED <<parked, uiVars>>

\* the legacy evaluation request settles
legacyEvaluationReplies(r) ==
    /\ pc = "awaitLegacyEvaluation"
    /\ responses' = Append(responses, r)
    /\ LET out == evaluationOutcome(r) IN
       IF out.ok THEN Return(out.v) ELSE Raise(LegacyEvaluateFailedMsg)
    /\ UNCHANGED <<env, impl, op, args, requests, primaryError>>
    /\ UNCHANGED <<parked, uiVars>>

\* extractTextFromPdf up to fileReader.readAsArrayBuffer; the same in both versions
extractTextFromPdf(v, file) ==
    /\ pc = "idle"
    /\ impl' = v
    /\ op' = "extractTextFromPdf"
    /\ args' = file
    /\ pc' = "awaitFile"
    /\ UNCHANGED <<env, requests, responses, primaryError, result, error>>
    /\ UNCHANGED <<parked, uiVars>>

\* the callbacks resolving with an empty text when the file cannot be read
fileReadSwallowing ==
    /\ pc = "awaitFile"
    /\ LET out == extractOutcome(args) IN
       IF out.ok THEN Return(out.v) ELSE Return("")
    /\ UNCHANGED <<env, impl, op, args, requests, responses, primaryError>>
    /\ UNCHANGED <<parked, uiVars>>

\* onload / onerror of the FileReader, through to resolve or reject
fileRead ==
    /\ pc = "awaitFile"
    /\ LET out == extractOutcome(args) IN
       IF out.ok THEN Return(out.v) ELSE Raise(out.message)
    /\ UNCHANGED <<env, impl, op, args, requests, responses, primaryError>>
    /\ UNCHANGED <<parked, uiVars>>

\* the caller has its value or its error; the service keeps nothing of the call
callerContinues ==
    /\ pc \in {"returned", "thrown"}
    /\ pc' = "idle"
    /\ op' = "none"
    /\ args' = NoValue
    /\ requests' = <<>>
    /\ responses' = <<>>
    /\ primaryError' = NoError
    /\ result' = NoValue
    /\ error' = NoError
    /\ UNCHANGED <<env, impl>>
    /\ UNCHANGED <<parked, uiVars>>

Next ==
    \/ \E a \in QuizArgs : generateQuiz(a)
    \/ \E r \in QuizReplies : primaryReplies(r)
    \/ \E r \in QuizReplies : secondaryReplies(r)
    \/ \E a \in QuizArgs : legacyGenerateQuiz(a)
    \/ \E r \in QuizReplies : legacyQuizReplies(r)
    \/ \E a \in EvaluationArgs : evaluateAnswer(a)
    \/ \E r \in EvaluationReplies : evaluationReplies(r)
    \/ \E a \in LegacyEvaluationArgs : legacyEvaluateAnswer(a)
    \/ \E r \in EvaluationReplies : legacyEvaluationReplies(r)
    \/ \E v \in {"current", "legacy"}, f \in Files : extractTextFromPdf(v, f)
    \/ fileRead
    \/ callerContinues

Spec == Init /\ [][Next]_vars

-----------------------------------------------------------------------------
(* The calls as wholes: what a call gives its caller for the replies it gets *)

\* generateQuiz (current): the primary attempt, then the fallback
generateQuizOutcome(e, a, rs) ==
    IF ~getApiKey(e).ok THEN Throw(getApiKey(e).message)
    ELSE LET first == attempt(rs[1], a.questionType) IN
         IF first.ok THEN first
         ELSE LET retry == attempt(rs[2], a.questionType) IN
              IF retry.ok THEN retry
              ELSE Throw(generationFailedMessage(retry.message, first.message))

\* generateQuiz (legacy): one attempt, one fixed message
legacyGenerateQuizOutcome(e, a, rs) ==
    IF ~legacyApiKey(e).ok THEN Throw(legacyApiKey(e).message)
    ELSE LET out == legacyAttempt(rs[1], a.questionType) IN
         IF out.ok THEN out ELSE Throw(LegacyGenerateFailedMsg)

\* evaluateAnswer (current)
evaluateAnswerOutcome(e, rs) ==
    IF ~getApiKey(e).ok THEN Throw(getApiKey(e).message)
    ELSE LET out == evaluationOutcome(rs[1]) IN
         IF out.ok THEN out ELSE Throw(evaluationFailedMessage(out.message))

\* evaluateAnswer (legacy)
legacyEvaluateAnswerOutcome(e, rs) ==
    IF ~legacyApiKey(e).ok THEN Throw(legacyApiKey(e).message)
    ELSE LET out == evaluationOutcome(rs[1]) IN
         IF out.ok THEN out ELSE Throw(LegacyEvaluateFailedMsg)

-----------------------------------------------------------------------------
(* The quiz view (QuizView): uploading an answer for evaluation *)

\* q.f of a question record; undefined when the record has no such property
Field(q, f) == IF f \in DOMAIN q THEN q[f] ELSE JUndefined

\* `${v}` : a value written into a template string
templateString(v) ==
    CASE v.t = "str" -> v.s
      [] v.t = "num" -> ToString(v.n)
      [] v.t = "null" -> "null"
      [] v.t = "undefined" -> "undefined"
      [] OTHER -> "[object Object]"

RECURSIVE trim(_)
\* s.trim(), for the space character
trim(s) ==
    IF s = "" THEN ""
    ELSE IF SubSeq(s, 1, 1) = " " THEN trim(SubSeq(s, 2, Len(s)))
    ELSE IF SubSeq(s, Len(s), Len(s)) = " " THEN trim(SubSeq(s, 1, Len(s) - 1))
    ELSE s

\* the kinds answered by uploading a photo of the written answer
SubjectiveTypes == {"Short", "VeryShort", "Long", "CaseBased", "ExtractBased"}
isSubjective(question) == question.type \in SubjectiveTypes

\* question.type === 'VeryShort' ? 2 : question.type === 'Short' ? 3 : 5
heuristicMarks(type) == IF type = "VeryShort" THEN 2 ELSE IF type = "Short" THEN 3 ELSE 5

\* maxMarks (current view): question.marks || the heuristic
maxMarks(question) ==
    IF "marks" \in DOMAIN question /\ question.marks # 0
       THEN question.marks
       ELSE heuristicMarks(question.type)

\* maxMarks (legacy view): the heuristic
legacyMaxMarks(question) == heuristicMarks(question.type)

\* the arguments the current view passes to evaluateAnswer
evaluateAnswerArgs(question, file) ==
    [ question |-> templateString(Field(question, "question")),
      modelAnswer |-> templateString(OrElse(Field(question, "modelAnswer"), JStr(""))),
      imageBase64 |-> file.data,
      mimeType |-> IF file.type # "" THEN file.type ELSE "image/jpeg",
      maxMarks |-> maxMarks(question) ]

\* the arguments the legacy view passes to evaluateAnswer
legacyEvaluateAnswerArgs(question, file) ==
    [ question |-> templateString(Field(question, "question")),
      modelAnswer |-> templateString(OrElse(Field(question, "modelAnswer"), JStr(""))),
      imageBase64 |-> file.data,
      maxMarks |-> legacyMaxMarks(question) ]

-----------------------------------------------------------------------------
(* localStorage: the quiz library (quizStorageService) and the quiz progress *)

\* the properties of a question record that hold JSON values
JsonFields == {"question", "options", "correctAnswer", "modelAnswer", "context", "explanation"}

\* a question after JSON.stringify and JSON.parse: a property whose value
\* is undefined is left out
stringifyQuestion(q) ==
    [f \in {g \in DOMAIN q : ~(g \in JsonFields /\ q[g] = JUndefined)} |-> q[f]]

stringifyQuestions(questions) == [i \in DOMAIN questions |-> stringifyQuestion(questions[i])]

\* getQuizzes(): the stored array, or [] when missing, unparsable or not an array
getQuizzes(st) ==
    LET quizzesJSON == st.communityQuizzes IN
    IF quizzesJSON = JNull THEN <<>>
    ELSE IF ~JSONparse(quizzesJSON).ok THEN <<>>
    ELSE IF JSONparse(quizzesJSON).v.t = "arr" THEN JSONparse(quizzesJSON).v.a
    ELSE <<>>

\* saveQuiz(quizName, questions, user, difficulty, timeLimit) at time t
saveQuiz(st, quizName, questions, difficulty, timeLimit, t) ==
    LET newQuiz == [ id |-> "quiz_" \o ToString(t), name |-> quizName,
                     questions |-> stringifyQuestions(questions),
                     creatorId |-> "guest_user", creatorName |-> "Student",
                     difficulty |-> difficulty, timeLimit |-> timeLimit ]
    IN  [st EXCEPT !.communityQuizzes = Json(JArr(<<newQuiz>> \o getQuizzes(st)))]

\* the effect that saves the quiz progress, or removes it
saveProgress(a, st) ==
    [st EXCEPT !.pdfQuizProgress =
        IF a.appState = "quiz" /\ Len(a.quizData) > 0
           THEN Json(JObj([ quizData |-> stringifyQuestions(a.quizData),
                            userAnswers |-> a.userAnswers,
                            currentQuestionIndex |-> a.currentQuestionIndex,
                            quizName |-> a.currentQuizName,
                            quizExpiryTime |-> a.quizExpiryTime ]))
           ELSE JNull]

\* the loading effect starting the saved quiz again at its first question
loadProgressAtFirstQuestion(a, st) ==
    LET savedProgress == st.pdfQuizProgress IN
    IF savedProgress = JNull THEN a
    ELSE IF ~JSONparse(savedProgress).ok \/ ThrowsOnRead(JSONparse(savedProgress).v) THEN a
    ELSE LET p == JSONparse(savedProgress).v.o IN
         [a EXCEPT !.quizData = p.quizData, !.userAnswers = p.userAnswers,
                   !.currentQuestionIndex = 0, !.currentQuizName = p.quizName,
                   !.quizExpiryTime = OrElse(p.quizExpiryTime, JNull), !.appState = "quiz"]

\* the effect that loads the saved quiz progress when the App mounts
loadProgress(a, st) ==
    LET savedProgress == st.pdfQuizProgress IN
    IF savedProgress = JNull THEN a
    ELSE IF ~JSONparse(savedProgress).ok \/ ThrowsOnRead(JSONparse(savedProgress).v) THEN a
    ELSE LET p == JSONparse(savedProgress).v.o IN
         IF Len(p.quizName) > 0
            THEN [a EXCEPT !.quizData = p.quizData, !.userAnswers = p.userAnswers,
                           !.currentQuestionIndex = p.currentQuestionIndex,
                           !.currentQuizName = p.quizName,
                           !.quizExpiryTime = OrElse(p.quizExpiryTime, JNull),
                           !.appState = "quiz"]
            ELSE a

-----------------------------------------------------------------------------
(* The App component *)

\* new Array(n).fill(null)
nulls(n) == [i \in 1..n |-> JNull]

\* timeLimit > 0 ? Date.now() + (timeLimit * 60 * 1000) : null
expiry(timeLimit, t) == IF timeLimit > 0 THEN JNum(t + timeLimit * 60 * 1000) ELSE JNull

\* resetQuiz()
resetQuiz(a) ==
    [a EXCEPT !.quizData = <<>>, !.userAnswers = <<>>, !.currentQuestionIndex = 0,
              !.currentQuizName = "", !.quizExpiryTime = JNull, !.error = JNull,
              !.appState = "setup"]

\* renderContent(): in 'quiz' without questions it calls resetQuiz()
renderContent(a) == IF a.appState = "quiz" /\ Len(a.quizData) = 0 THEN resetQuiz(a) ELSE a

\* the QuizView is on screen
QuizShown(a) == a.appState = "quiz" /\ Len(a.quizData) > 0

\* quizData[currentQuestionIndex] and userAnswers[currentQuestionIndex]
question(a) == a.quizData[a.currentQuestionIndex + 1]
userAnswer(a) ==
    IF a.currentQuestionIndex + 1 \in DOMAIN a.userAnswers
       THEN a.userAnswers[a.currentQuestionIndex + 1] ELSE JUndefined

\* the try block of handleGenerateQuiz after its awaits
generated(a, questions, quizName, timeLimit, t) ==
    [a EXCEPT !.quizData = questions, !.currentQuizName = quizName,
              !.userAnswers = nulls(Len(questions)), !.currentQuestionIndex = 0,
              !.quizExpiryTime = expiry(timeLimit, t), !.appState = "quiz"]

\* the catch block resetting the quiz before it shows the error
generationFailedResetting(a, message) ==
    [resetQuiz(a) EXCEPT !.error = JStr(message), !.appState = "setup"]

\* the catch block of handleGenerateQuiz
generationFailed(a, message) == [a EXCEPT !.error = JStr(message), !.appState = "setup"]

\* handleStartQuiz(quiz)
startQuiz(a, quiz, t) ==
    [a EXCEPT !.quizData = quiz.questions, !.currentQuizName = quiz.name,
              !.userAnswers = nulls(Len(quiz.questions)), !.currentQuestionIndex = 0,
              !.quizExpiryTime = expiry(quiz.timeLimit, t), !.appState = "quiz"]

\* handleAnswerSelect keeping the answer in the question record as well
answerSelectedInQuestion(a, answers, index, answer) ==
    [a EXCEPT !.userAnswers = [i \in DOMAIN answers \cup {index + 1} |->
                                  IF i = index + 1 THEN JStr(answer) ELSE answers[i]],
              !.quizData = [i \in DOMAIN a.quizData |->
                              IF i = index + 1
                                 THEN [f \in DOMAIN a.quizData[i] \cup {"userAnswer"} |->
                                         IF f = "userAnswer" THEN JStr(answer)
                                         ELSE a.quizData[i][f]]
                                 ELSE a.quizData[i]]]

\* handleAnswerSelect(answer) in the render that saw answers and index
answerSelected(a, answers, index, answer) ==
    [a EXCEPT !.userAnswers = [i \in DOMAIN answers \cup {index + 1} |->
                                  IF i = index + 1 THEN JStr(answer) ELSE answers[i]]]

\* calculateTimeLeft() at time t: Math.floor((expiryTime - now) / 1000), not below 0
calculateTimeLeft(expiryTime, t) ==
    LET diff == (expiryTime - t) \div TickPeriod IN IF diff > 0 THEN diff ELSE 0

\* the timer effect of the QuizView, run at time t when the view mounts and,
\* as onTimeUp is a new function in every render of App, after every such
\* render: it shows the time left and starts the interval anew
timerEffect(v, a, t) ==
    IF ~Truthy(a.quizExpiryTime)
       THEN [v EXCEPT !.timeLeft = JNull, !.timerSetAt = JNull]
       ELSE [v EXCEPT !.timeLeft = JNum(calculateTimeLeft(a.quizExpiryTime.n, t)),
                      !.timerSetAt = JNum(t)]

\* the suspended handlers b and one more, c; b without one c
Suspend(b, c) == b (+) SetToBag({c})
Resume(b, c) == b (-) SetToBag({c})

\* a suspended handler of a QuizView that has been unmounted since
detach(c) == IF c.handler = "handleUploadAndEvaluate" THEN [c EXCEPT !.attached = FALSE] ELSE c

RECURSIVE detachEach(_, _)
\* the handlers S of the bag b, each detached
detachEach(b, S) ==
    IF S = {} THEN EmptyBag
    ELSE LET c == CHOOSE x \in S : TRUE IN
         detachEach(b, S \ {c}) (+) [d \in {detach(c)} |-> CopiesIn(c, b)]

\* The components after a handler left the state a1, v1, c1, st1: the render
\* of the new state, the mounting and unmounting of the QuizView, its effect
\* that resets it when the question changes (in the legacy view: when the
\* question or its answer changes), its timer effect, and the effect that
\* saves the progress.  replaced: the handler put a new array in quizData.
Commit(a1, v1, c1, st1, replaced) ==
    LET a2 == renderContent(a1)
        mounts == ~QuizShown(app) \/ ~QuizShown(a2)
        resets == \/ replaced
                  \/ a2.currentQuestionIndex # app.currentQuestionIndex
                  \/ impl = "legacy" /\ userAnswer(a2) # userAnswer(app)
        shown == IF mounts THEN InitialView
                 ELSE IF resets
                         THEN [v1 EXCEPT !.selectedFile = JNull, !.isEvaluating = FALSE,
                                         !.evaluation = JNull]
                 ELSE v1
    IN  /\ view' = IF ~QuizShown(a2) THEN InitialView
                   ELSE IF mounts \/ a2 # app THEN timerEffect(shown, a2, now)
                   ELSE shown
        /\ app' = a2
        /\ calls' = IF QuizShown(a2) THEN c1 ELSE detachEach(c1, BagToSet(c1))
        /\ storage' = saveProgress(a2, st1)

\* handleGenerateQuiz up to its first await; c is what the form submits
handleGenerateQuiz(file, c) ==
    /\ app.appState = "setup"
    /\ BagCardinality(calls) < MaxCalls
    /\ Len(getQuizzes(storage)) + BagCardinality(calls) < MaxLibrary
    /\ Commit([app EXCEPT !.appState = "loading", !.error = JNull], view,
              Suspend(calls, [ handler |-> "handleGenerateQuiz", attached |-> TRUE,
                               file |-> file, config |-> c ]),
              storage, FALSE)
    /\ UNCHANGED <<env, impl, callVars, parked, now>>

\* what extractTextFromPdf and then generateQuiz give handleGenerateQuiz
generationOutcome(v, e, file, c, rs) ==
    LET pdfText == extractOutcome(file)
        a == [ pdfText |-> pdfText.v, numQuestions |-> c.numQuestions,
               difficulty |-> c.difficulty, questionType |-> c.questionType,
               examContext |-> c.examContext ]
    IN  IF ~pdfText.ok THEN pdfText
        ELSE IF v = "current" THEN generateQuizOutcome(e, a, rs)
        ELSE legacyGenerateQuizOutcome(e, a, rs)

\* the awaits of a suspended handleGenerateQuiz settle: its try block runs to
\* the end, or its catch block does
generationSettles(h, rs) ==
    /\ BagIn(h, calls)
    /\ h.handler = "handleGenerateQuiz"
    /\ LET c == h.config
           out == generationOutcome(impl, env, h.file, c, rs)
       IN  IF out.ok
              THEN Commit(generated(app, out.v, c.quizName, c.timeLimit, now), view,
                          Resume(calls, h),
                          saveQuiz(storage, c.quizName, out.v, c.difficulty, c.timeLimit, now),
                          TRUE)
              ELSE Commit(generationFailed(app, out.message), view, Resume(calls, h),
                          storage, FALSE)
    /\ UNCHANGED <<env, impl, callVars, parked, now>>

\* an MCQ option clicked, or the text of a FillBlanks answer submitted
\* (handleTextSubmit passes the trimmed text, when that is not empty)
handleAnswerSelect(answer) ==
    /\ QuizShown(app)
    /\ userAnswer(app) = JNull
    /\ \/ /\ question(app).type = "MCQ"
          /\ Truthy(Field(question(app), "options"))
          /\ Field(question(app), "options").t = "arr"
          /\ \E k \in DOMAIN Field(question(app), "options").a :
                Field(question(app), "options").a[k] = JStr(answer)
       \/ /\ question(app).type = "FillBlanks"
          /\ answer # "" /\ answer = trim(answer)
    /\ Commit(answerSelected(app, app.userAnswers, app.currentQuestionIndex, answer),
              view, calls, storage, FALSE)
    /\ UNCHANGED <<env, impl, callVars, parked, now>>

\* handleNextQuestion
handleNextQuestion ==
    /\ QuizShown(app)
    /\ Commit(IF app.currentQuestionIndex < Len(app.quizData) - 1
                 THEN [app EXCEPT !.currentQuestionIndex = @ + 1]
                 ELSE [app EXCEPT !.appState = "results"],
              view, calls, storage, FALSE)
    /\ UNCHANGED <<env, impl, callVars, parked, now>>

\* handlePreviousQuestion; the button is disabled on the first question
handlePreviousQuestion ==
    /\ QuizShown(app)
    /\ app.currentQuestionIndex + 1 # 1
    /\ Commit(IF app.currentQuestionIndex > 0
                 THEN [app EXCEPT !.currentQuestionIndex = @ - 1] ELSE app,
              view, calls, storage, FALSE)
    /\ UNCHANGED <<env, impl, callVars, parked, now>>

\* handleToggleOverview
handleToggleOverview ==
    /\ QuizShown(app)
    /\ Commit([app EXCEPT !.isOverviewOpen = ~@], view, calls, storage, FALSE)
    /\ UNCHANGED <<env, impl, callVars, parked, now>>

\* handleJumpToQuestion(index), from the overview
handleJumpToQuestion(index) ==
    /\ QuizShown(app)
    /\ app.isOverviewOpen
    /\ index \in 0..(Len(app.quizData) - 1)
    /\ Commit([app EXCEPT !.currentQuestionIndex = index, !.isOverviewOpen = FALSE],
              view, calls, storage, FALSE)
    /\ UNCHANGED <<env, impl, callVars, parked, now>>

\* the callback of the interval is due
TimerDue == QuizShown(app) /\ view.timerSetAt # JNull /\ now >= view.timerSetAt.n + TickPeriod

\* the callback of the interval finds time left: it shows it
tick ==
    /\ TimerDue
    /\ calculateTimeLeft(app.quizExpiryTime.n, now) > 0
    /\ view' = [view EXCEPT
                   !.timeLeft = JNum(calculateTimeLeft(app.quizExpiryTime.n, now)),
                   !.timerSetAt = JNum(@.n + TickPeriod * ((now - @.n) \div TickPeriod))]
    /\ UNCHANGED <<env, impl, callVars, parked, app, calls, storage, now>>

\* the callback of the interval finds no time left: it clears the interval
\* and calls onTimeUp, which is handleTimeUp
handleTimeUp ==
    /\ TimerDue
    /\ calculateTimeLeft(app.quizExpiryTime.n, now) <= 0
    /\ Commit([app EXCEPT !.appState = "results"],
              [view EXCEPT !.timeLeft = JNum(0), !.timerSetAt = JNull], calls, storage, FALSE)
    /\ UNCHANGED <<env, impl, callVars, parked, now>>

\* onReset of the results view
onReset ==
    /\ app.appState = "results"
    /\ Commit(resetQuiz(app), view, calls, storage, FALSE)
    /\ UNCHANGED <<env, impl, callVars, parked, now>>

\* onBrowse of the results view
onBrowse ==
    /\ app.appState = "results"
    /\ Commit([app EXCEPT !.appState = "browse"], view, calls, storage, FALSE)
    /\ UNCHANGED <<env, impl, callVars, parked, now>>

\* handleNavigate(page), from the bottom navigation
handleNavigate(page) ==
    /\ page \in {"setup", "browse", "profile"}
    /\ Commit(IF page = "setup" THEN resetQuiz(app) ELSE [app EXCEPT !.appState = page],
              view, calls, storage, page = "setup")
    /\ UNCHANGED <<env, impl, callVars, parked, now>>

\* handleLogout, from the profile page
handleLogout ==
    /\ app.appState = "profile"
    /\ Commit([app EXCEPT !.appState = "browse"], view, calls, storage, FALSE)
    /\ UNCHANGED <<env, impl, callVars, parked, now>>

\* handleStartQuiz(quiz), with the k-th quiz of the library
handleStartQuiz(k) ==
    /\ app.appState \in {"browse", "profile"}
    /\ k \in DOMAIN getQuizzes(storage)
    /\ Commit(startQuiz(app, getQuizzes(storage)[k], now), view, calls, storage, TRUE)
    /\ UNCHANGED <<env, impl, callVars, parked, now>>

\* the page is loaded again: the suspended handlers are gone, the App mounts
\* and loads the saved progress
reload ==
    /\ app' = renderContent(loadProgress(InitialApp, storage))
    /\ view' = IF QuizShown(app') THEN timerEffect(InitialView, app', now) ELSE InitialView
    /\ calls' = EmptyBag
    /\ storage' = saveProgress(app', storage)
    /\ UNCHANGED <<env, impl, callVars, parked, now>>

\* Date.now() advances
timePasses(d) ==
    /\ now + d <= 2 * MaxClock
    /\ now' = now + d
    /\ UNCHANGED <<env, impl, callVars, parked, app, view, calls, storage>>

\* handleFileChange with a chosen file
handleFileChange(file) ==
    /\ QuizShown(app)
    /\ isSubjective(question(app))
    /\ view.evaluation = JNull
    /\ ~view.isEvaluating
    /\ view' = [view EXCEPT !.selectedFile = file]
    /\ UNCHANGED <<env, impl, callVars, parked, app, calls, storage, now>>

\* handleUploadAndEvaluate up to the reading of the file: the handler keeps
\* the question, the answers and the index of the render it was made in
handleUploadAndEvaluate ==
    /\ QuizShown(app)
    /\ isSubjective(question(app))
    /\ view.selectedFile # JNull
    /\ view.evaluation = JNull
    /\ ~view.isEvaluating
    /\ BagCardinality(calls) < MaxCalls
    /\ view' = [view EXCEPT !.isEvaluating = TRUE]
    /\ calls' = Suspend(calls,
          [ handler |-> "handleUploadAndEvaluate", attached |-> TRUE,
            file |-> view.selectedFile, question |-> question(app),
            userAnswers |-> app.userAnswers,
            currentQuestionIndex |-> app.currentQuestionIndex,
            args |-> IF impl = "current"
                        THEN evaluateAnswerArgs(question(app), view.selectedFile)
                        ELSE legacyEvaluateAnswerArgs(question(app), view.selectedFile) ])
    /\ UNCHANGED <<env, impl, callVars, parked, app, storage, now>>

\* the file of a suspended handleUploadAndEvaluate could not be read: the
\* current view gives up; the legacy one throws out of onloadend
readFails(h) ==
    /\ BagIn(h, calls)
    /\ h.handler = "handleUploadAndEvaluate"
    /\ ~h.file.readable
    /\ Commit(app,
              IF impl = "current" /\ h.attached
                 THEN [view EXCEPT !.isEvaluating = FALSE] ELSE view,
              Resume(calls, h), storage, FALSE)
    /\ UNCHANGED <<env, impl, callVars, parked, now>>

\* the file is read and evaluateAnswer settles: the try block runs to the
\* end, or the catch block does, and then the finally block
evaluationSettles(h, rs) ==
    /\ BagIn(h, calls)
    /\ h.handler = "handleUploadAndEvaluate"
    /\ h.file.readable
    /\ LET c == h
           out == IF impl = "current" THEN evaluateAnswerOutcome(env, rs)
                  ELSE legacyEvaluateAnswerOutcome(env, rs)
           v1 == IF ~c.attached THEN view
                 ELSE IF out.ok THEN [view EXCEPT !.evaluation = out.v, !.isEvaluating = FALSE]
                 ELSE [view EXCEPT !.isEvaluating = FALSE]
       IN  Commit(IF out.ok
                     THEN answerSelected(app, c.userAnswers, c.currentQuestionIndex,
                                         "Uploaded Answer")
                     ELSE app,
                  v1, Resume(calls, h), storage, FALSE)
    /\ UNCHANGED <<env, impl, callVars, parked, now>>

-----------------------------------------------------------------------------
(* The quiz view showing a quiz of one question of each kind *)

\* the photos a user may choose: a PNG, a file without a type, an unreadable one
ViewFiles ==
    {[readable |-> TRUE, type |-> "image/png", data |-> "aW1n"],
     [readable |-> TRUE, type |-> "", data |-> "aW1n"],
     [readable |-> FALSE, type |-> "image/png", data |-> ""]}

\* the questions either version makes of a one-element reply, kind by kind
OneQuestionQuizzes(v) ==
    {(IF v = "current" THEN attempt(Json(JObj([questions |-> JArr(<<el>>)])), qt)
      ELSE legacyAttempt(Json(JObj([questions |-> JArr(<<el>>)])), qt)).v :
        qt \in QuestionTypes, el \in {FullElement, SparseElement}}

InitView ==
    /\ env \in Envs
    /\ impl \in {"current", "legacy"}
    /\ op = "none"
    /\ pc = "idle"
    /\ args = NoValue
    /\ requests = <<>>
    /\ responses = <<>>
    /\ primaryError = NoError
    /\ result = NoValue
    /\ error = NoError
    /\ parked = NoValue
    /\ \E questions \in OneQuestionQuizzes(impl) :
         /\ app = generated(InitialApp, questions, "Biology", 0, 0)
         /\ storage = saveProgress(app, saveQuiz(EmptyStorage, "Biology", questions, "Easy", 0, 0))
    /\ view = InitialView
    /\ calls = EmptyBag
    /\ now = 0

NextView ==
    \/ \E f \in ViewFiles : handleFileChange(f)
    \/ handleUploadAndEvaluate
    \/ \E h \in BagToSet(calls) : readFails(h)
    \/ \E h \in BagToSet(calls), r \in EvaluationReplies : evaluationSettles(h, <<r>>)

SpecView == InitView /\ [][NextView]_vars

-----------------------------------------------------------------------------
(* The application: generating, browsing and taking quizzes *)

AppEnvs == {[API_KEY |-> "", VITE_API_KEY |-> ""], [API_KEY |-> "key-a", VITE_API_KEY |-> ""]}

\* the PDFs a user may upload: an unreadable one and one of one page
AppFiles == {[read |-> "error"], [read |-> "ok", parses |-> TRUE, pages |-> << <<"Cells">> >>]}

\* what the form submits
FormConfigs ==
    {[ numQuestions |-> MaxNumQuestions, quizName |-> "Biology", difficulty |-> "Easy",
       timeLimit |-> 1, questionType |-> "MCQ", examContext |-> "CBSE Class 10" ]}

\* the replies to the requests of one generateQuiz, in order: two questions
\* at once, two questions after a rejection, two rejections
AppQuizReplies ==
    LET rejected == Rejected("quota exceeded")
        questions == Json(JObj([questions |-> JArr(<<FullElement, SparseElement>>)]))
    IN  {<<questions, rejected>>, <<rejected, questions>>, <<rejected, rejected>>}

AppEvaluationReplies ==
    {Rejected("quota exceeded"),
     Json(JObj([ score |-> JNum(2), maxMarks |-> JNum(5),
                 mistakes |-> JArr(<<JStr("no diagram")>>), feedback |-> JStr("revise") ]))}

Answers == {"A"}

\* the photo of an answer
AppPhotos == {f \in ViewFiles : f.readable /\ f.type # ""}

\* the quiz an earlier session left in the library, at time 0
StoredQuestions(v) ==
    LET r == Json(JObj([questions |-> JArr(<<SparseElement, FullElement>>)])) IN
    IF v = "current" THEN attempt(r, "Short").v ELSE legacyAttempt(r, "Short").v

InitApp ==
    /\ env \in AppEnvs
    /\ impl \in {"current", "legacy"}
    /\ op = "none"
    /\ pc = "idle"
    /\ args = NoValue
    /\ requests = <<>>
    /\ responses = <<>>
    /\ primaryError = NoError
    /\ result = NoValue
    /\ error = NoError
    /\ parked = NoValue
    /\ app = InitialApp
    /\ view = InitialView
    /\ calls = EmptyBag
    /\ storage = saveQuiz(EmptyStorage, "Genetics", StoredQuestions(impl), "Medium", 0, 0)
    /\ now = MaxClock

NextApp ==
    \/ \E f \in AppFiles, c \in FormConfigs : handleGenerateQuiz(f, c)
    \/ \E h \in BagToSet(calls), rs \in AppQuizReplies : generationSettles(h, rs)
    \/ \E answer \in Answers : handleAnswerSelect(answer)
    \/ handleNextQuestion
    \/ handlePreviousQuestion
    \/ handleToggleOverview
    \/ \E index \in 0..(MaxItems - 1) : handleJumpToQuestion(index)
    \/ handleTimeUp
    \/ onReset
    \/ onBrowse
    \/ \E page \in {"setup", "browse", "profile"} : handleNavigate(page)
    \/ handleLogout
    \/ \E k \in 1..MaxLibrary : handleStartQuiz(k)
    \/ reload
    \/ \E d \in {MaxClock} : timePasses(d)
    \/ \E f \in AppPhotos : handleFileChange(f)
    \/ handleUploadAndEvaluate
    \/ \E h \in BagToSet(calls), r \in AppEvaluationReplies : evaluationSettles(h, <<r>>)

SpecApp == InitApp /\ [][NextApp]_vars

-----------------------------------------------------------------------------
(* Two calls of the service in progress at once.  A call runs from one await
   to the next without interruption; at an await the other call may go on. *)

\* the call in progress, as a record
thisCall ==
    [ op |-> op, pc |-> pc, args |-> args, requests |-> requests, responses |-> responses,
      primaryError |-> primaryError, result |-> result, error |-> error ]

\* no call
noCall ==
    [ op |-> "none", pc |-> "idle", args |-> NoValue, requests |-> <<>>, responses |-> <<>>,
      primaryError |-> NoError, result |-> NoValue, error |-> NoError ]

\* the other call goes on, with the error caught by generateQuiz kept in one
\* place for both calls
switchSharingError ==
    /\ parked' = [thisCall EXCEPT !.primaryError = NoError]
    /\ op' = parked.op
    /\ pc' = parked.pc
    /\ args' = parked.args
    /\ requests' = parked.requests
    /\ responses' = parked.responses
    /\ result' = parked.result
    /\ error' = parked.error
    /\ UNCHANGED <<env, impl, primaryError, uiVars>>

\* the other call goes on: each call has its own arguments, requests,
\* responses and caught error
switch ==
    /\ parked' = thisCall
    /\ op' = parked.op
    /\ pc' = parked.pc
    /\ args' = parked.args
    /\ requests' = parked.requests
    /\ responses' = parked.responses
    /\ primaryError' = parked.primaryError
    /\ result' = parked.result
    /\ error' = parked.error
    /\ UNCHANGED <<env, impl, uiVars>>

ConcurrentQuizArgs ==
    {[ pdfText |-> "Cells are the basic unit of life.", numQuestions |-> 1,
       difficulty |-> "Easy", questionType |-> qt, examContext |-> "" ] :
        qt \in {"MCQ", "Long"}}

ConcurrentQuizReplies ==
    {Rejected(""), Rejected("quota exceeded"), Garbage,
     Json(JObj([questions |-> JArr(<<FullElement>>)]))}

ConcurrentEvaluationArgs == {a \in EvaluationArgs : a.maxMarks \in {2, 5}}

ConcurrentEvaluationReplies ==
    {Rejected("quota exceeded"),
     Json(JObj([ score |-> JNum(2), maxMarks |-> JNum(5),
                 mistakes |-> JArr(<<>>), feedback |-> JStr("good") ]))}

InitConcurrent ==
    /\ env \in Envs
    /\ impl = "current"
    /\ op = "none"
    /\ pc = "idle"
    /\ args = NoValue
    /\ requests = <<>>
    /\ responses = <<>>
    /\ primaryError = NoError
    /\ result = NoValue
    /\ error = NoError
    /\ parked = noCall
    /\ app = InitialApp
    /\ view = InitialView
    /\ calls = EmptyBag
    /\ storage = EmptyStorage
    /\ now = 0

NextConcurrent ==
    \/ \E a \in ConcurrentQuizArgs : generateQuiz(a)
    \/ \E r \in ConcurrentQuizReplies : primaryReplies(r)
    \/ \E r \in ConcurrentQuizReplies : secondaryReplies(r)
    \/ \E a \in ConcurrentEvaluationArgs : evaluateAnswer(a)
    \/ \E r \in ConcurrentEvaluationReplies : evaluationReplies(r)
    \/ callerContinues
    \/ switch

SpecConcurrent == InitConcurrent /\ [][NextConcurrent]_vars

-----------------------------------------------------------------------------
(* The calls as the app makes them, when every request settles: a request a
   call is waiting for is eventually answered or rejected (the SDK's promise
   settles).  The app calls generateQuiz while it is in 'loading' and
   evaluateAnswer from the quiz view of a running quiz. *)

FairReplies ==
    {Rejected("quota exceeded"), NoText, Garbage,
     Json(JObj([questions |-> JArr(<<FullElement, SparseElement>>)]))}

InitFair ==
    /\ env \in Envs
    /\ impl = "current"
    /\ op = "none"
    /\ pc = "idle"
    /\ args = NoValue
    /\ requests = <<>>
    /\ responses = <<>>
    /\ primaryError = NoError
    /\ result = NoValue
    /\ error = NoError
    /\ parked = NoValue
    /\ app \in {[InitialApp EXCEPT !.appState = "loading"]}
               \cup {generated(InitialApp, questions, "Biology", 0, 0) :
                        questions \in {attempt(r, "Short").v : r \in {rr \in FairReplies : attempt(rr, "Short").ok}}}
    /\ view = InitialView
    /\ calls = EmptyBag
    /\ storage = EmptyStorage
    /\ now = 0

NextFair ==
    \/ \E a \in QuizArgs : app.appState = "loading" /\ generateQuiz(a)
    \/ \E r \in FairReplies : primaryReplies(r)
    \/ \E r \in FairReplies : secondaryReplies(r)
    \/ \E a \in EvaluationArgs : QuizShown(app) /\ evaluateAnswer(a)
    \/ \E r \in EvaluationReplies : evaluationReplies(r)
    \/ callerContinues

SpecFair ==
    /\ InitFair
    /\ [][NextFair]_vars
    /\ WF_vars(\E r \in FairReplies : primaryReplies(r))
    /\ WF_vars(\E r \in FairReplies : secondaryReplies(r))
    /\ WF_vars(\E r \in EvaluationReplies : evaluationReplies(r))

-----------------------------------------------------------------------------
(* Taking the quizzes of a library of two: one of two questions and one of
   one question *)

InitLibrary ==
    /\ env \in AppEnvs
    /\ impl \in {"current", "legacy"}
    /\ op = "none"
    /\ pc = "idle"
    /\ args = NoValue
    /\ requests = <<>>
    /\ responses = <<>>
    /\ primaryError = NoError
    /\ result = NoValue
    /\ error = NoError
    /\ parked = NoValue
    /\ app = InitialApp
    /\ view = InitialView
    /\ calls = EmptyBag
    /\ storage = saveQuiz(saveQuiz(EmptyStorage, "Genetics", StoredQuestions(impl), "Medium", 0, 0),
                          "Cells", SubSeq(StoredQuestions(impl), 1, 1), "Easy", 0, 1)
    /\ now = MaxClock

NextLibrary ==
    \/ \E page \in {"setup", "browse", "profile"} : handleNavigate(page)
    \/ \E k \in 1..MaxLibrary : handleStartQuiz(k)
    \/ handleNextQuestion
    \/ handlePreviousQuestion
    \/ handleToggleOverview
    \/ \E index \in 0..(MaxItems - 1) : handleJumpToQuestion(index)
    \/ onReset
    \/ onBrowse
    \/ \E f \in AppPhotos : handleFileChange(f)
    \/ handleUploadAndEvaluate
    \/ \E h \in BagToSet(calls), r \in AppEvaluationReplies : evaluationSettles(h, <<r>>)

SpecLibrary == InitLibrary /\ [][NextLibrary]_vars

-----------------------------------------------------------------------------
(* The answers as the quiz view marks them and as the results view counts
   them *)

RECURSIVE toLowerCase(_)
\* s.toLowerCase(), for the letters A to Z
toLowerCase(s) ==
    LET upper == "ABCDEFGHIJKLMNOPQRSTUVWXYZ"
        lower == "abcdefghijklmnopqrstuvwxyz"
        c == SubSeq(s, 1, 1)
        at == {i \in 1..Len(upper) : SubSeq(upper, i, i) = c}
    IN  IF s = "" THEN ""
        ELSE (IF at = {} THEN c ELSE LET i == CHOOSE k \in at : TRUE IN SubSeq(lower, i, i))
             \o toLowerCase(SubSeq(s, 2, Len(s)))

\* the current view shows the selected option of an MCQ in green:
\* cleanOption === cleanCorrectAnswer for the option that was chosen
optionShownCorrect(q, answer) ==
    LET correctAnswer == Field(q, "correctAnswer") IN
    /\ answer.t = "str"
    /\ trim(answer.s) = (IF Truthy(correctAnswer) THEN trim(correctAnswer.s) ELSE "")

\* the legacy view: option === question.correctAnswer
legacyOptionShownCorrect(q, answer) ==
    answer.t = "str" /\ answer = Field(q, "correctAnswer")

\* both views show the input of a FillBlanks question in green:
\* userAnswer?.toLowerCase() === question.correctAnswer?.toLowerCase()
blankShownCorrect(q, answer) ==
    LET correctAnswer == Field(q, "correctAnswer") IN
    IF answer.t = "str" /\ correctAnswer.t = "str"
       THEN toLowerCase(answer.s) = toLowerCase(correctAnswer.s)
       ELSE answer.t = "undefined" /\ correctAnswer.t = "undefined"

\* the quiz view of version v has shown the answer to the question as correct
shownCorrect(v, q, answer) ==
    /\ answer # JNull
    /\ \/ /\ q.type = "MCQ"
          /\ IF v = "current" THEN optionShownCorrect(q, answer)
             ELSE legacyOptionShownCorrect(q, answer)
       \/ /\ q.type = "FillBlanks"
          /\ blankShownCorrect(q, answer)

\* ResultsView: userAnswers.reduce(... answer === quizData[index].correctAnswer ...)
score(quizData, userAnswers) ==
    Cardinality({i \in DOMAIN userAnswers :
                    userAnswers[i] = Field(quizData[i], "correctAnswer")})

\* a quiz of the kind qt as generateQuiz of either version returns it: the
\* answer key of the first question has a trailing space in its first
\* option, the second question has no answer key
InitScore ==
    /\ env \in AppEnvs
    /\ impl \in {"current", "legacy"}
    /\ op = "none"
    /\ pc = "idle"
    /\ args = NoValue
    /\ requests = <<>>
    /\ responses = <<>>
    /\ primaryError = NoError
    /\ result = NoValue
    /\ error = NoError
    /\ parked = NoValue
    /\ \E qt \in {"MCQ", "FillBlanks", "Short"} :
         LET r == Json(JObj([questions |-> JArr(<<
                     JObj([ question |-> JStr("Q1"),
                            options |-> JArr(<<JStr("Nucleus "), JStr("Ribosome")>>),
                            correctAnswer |-> JStr("Nucleus") ]),
                     JObj([ question |-> JStr("Q2"),
                            options |-> JArr(<<JStr("Nucleus"), JStr("Ribosome")>>),
                            correctAnswer |-> JStr("Ribosome") ]) >>)]))
             questions == IF impl = "current" THEN attempt(r, qt).v ELSE legacyAttempt(r, qt).v
         IN  /\ app = generated(InitialApp, questions, "Biology", 0, 0)
             /\ storage = saveProgress(app, saveQuiz(EmptyStorage, "Biology", questions, "Easy", 0, 0))
    /\ view = InitialView
    /\ calls = EmptyBag
    /\ now = 0

NextScore ==
    \/ \E answer \in {"Nucleus", "Nucleus ", "nucleus", "Ribosome"} : handleAnswerSelect(answer)
    \/ handleNextQuestion
    \/ handlePreviousQuestion
    \/ \E f \in AppPhotos : handleFileChange(f)
    \/ handleUploadAndEvaluate
    \/ \E h \in BagToSet(calls), r \in AppEvaluationReplies : evaluationSettles(h, <<r>>)

SpecScore == InitScore /\ [][NextScore]_vars

-----------------------------------------------------------------------------
(* A quiz against the clock: one with a time limit of a minute and one
   without a limit, started at time 0.  Time passes in steps of half a tick
   and of a tick, and not beyond the moment the interval's callback is due:
   the browser runs the callback then. *)

InitTimer ==
    /\ env \in AppEnvs
    /\ impl \in {"current", "legacy"}
    /\ op = "none"
    /\ pc = "idle"
    /\ args = NoValue
    /\ requests = <<>>
    /\ responses = <<>>
    /\ primaryError = NoError
    /\ result = NoValue
    /\ error = NoError
    /\ parked = NoValue
    /\ now = 0
    /\ calls = EmptyBag
    /\ \E timeLimit \in {0, 1} :
         LET library == saveQuiz(EmptyStorage, "Genetics", StoredQuestions(impl), "Medium",
                                 timeLimit, 0)
         IN  /\ app = startQuiz(InitialApp, getQuizzes(library)[1], 0)
             /\ view = timerEffect(InitialView, app, 0)
             /\ storage = saveProgress(app, library)

NextTimer ==
    \/ \E d \in {TickPeriod \div 2, TickPeriod} :
          /\ view.timerSetAt # JNull => now + d <= view.timerSetAt.n + TickPeriod
          /\ timePasses(d)
    \/ tick
    \/ handleTimeUp
    \/ handleToggleOverview
    \/ handleNextQuestion
    \/ handlePreviousQuestion

SpecTimer == InitTimer /\ [][NextTimer]_vars

-----------------------------------------------------------------------------
(* Two generations in progress at once (the form was submitted, left by the
   bottom navigation while loading, and submitted again): the library under
   the saves of both, starting from what the library key may hold *)

InitSaves ==
    /\ env \in AppEnvs
    /\ impl \in {"current", "legacy"}
    /\ op = "none"
    /\ pc = "idle"
    /\ args = NoValue
    /\ requests = <<>>
    /\ responses = <<>>
    /\ primaryError = NoError
    /\ result = NoValue
    /\ error = NoError
    /\ parked = NoValue
    /\ app = [InitialApp EXCEPT !.appState = "loading"]
    /\ view = InitialView
    /\ \E f \in AppFiles, c \in FormConfigs :
         LET h == [handler |-> "handleGenerateQuiz", attached |-> TRUE, file |-> f, config |-> c]
         IN  calls = Suspend(Suspend(EmptyBag, h), h)
    /\ storage \in {[EmptyStorage EXCEPT !.communityQuizzes = stored] :
                       stored \in {JNull, Garbage, Json(JNull), Json(JObj(<<>>)), Json(JArr(<<>>))}}
    /\ now = 0

NextSaves ==
    \/ \E h \in BagToSet(calls), rs \in AppQuizReplies : generationSettles(h, rs)
    \/ \E page \in {"setup", "browse"} : handleNavigate(page)
    \/ \E k \in 1..MaxLibrary : handleStartQuiz(k)
    \/ handleNextQuestion
    \/ \E d \in {MaxClock} : timePasses(d)

SpecSaves == InitSaves /\ [][NextSaves]_vars

-----------------------------------------------------------------------------
(* The accounts (authService): signUp, signIn, signOut over the user store
   and the session in localStorage *)

\* getUsersDB(): the parsed store, [] when the key is missing or not JSON
getUsersDB(st) ==
    LET usersJSON == st.quizAppUsersDB IN
    IF usersJSON = JNull THEN JArr(<<>>)
    ELSE IF ~JSONparse(usersJSON).ok THEN JArr(<<>>)
    ELSE JSONparse(usersJSON).v

\* users.find(u => u.email.toLowerCase() === email.toLowerCase()): the
\* positions of the matches, of which find takes the first
findUser(users, email) ==
    {i \in DOMAIN users : toLowerCase(users[i].email) = toLowerCase(email)}

RECURSIVE encodeURIComponent(_)
\* encodeURIComponent(s), for letters and the space character
encodeURIComponent(s) ==
    IF s = "" THEN ""
    ELSE (IF SubSeq(s, 1, 1) = " " THEN "%20" ELSE SubSeq(s, 1, 1))
         \o encodeURIComponent(SubSeq(s, 2, Len(s)))

\* the User object signUp makes at time t
newUser(name, email, t) ==
    [ id |-> "user_" \o ToString(t), name |-> name, email |-> email,
      picture |-> "https://api.dicebear.com/8.x/initials/svg?seed=" \o encodeURIComponent(name) ]

\* signUp looking for the email as it is written
signUpComparingExactly(name, email, password) ==
    /\ pc = "idle"
    /\ op' = "signUp"
    /\ args' = [name |-> name, email |-> email, password |-> password]
    /\ LET users == getUsersDB(storage) IN
       IF users.t # "arr" THEN Raise(TypeErrorMsg) /\ UNCHANGED storage
       ELSE IF \E i \in DOMAIN users.a : users.a[i].email = email
               THEN Raise("An account with this email already exists.") /\ UNCHANGED storage
       ELSE LET user == newUser(name, email, now)
                userForDb == [f \in DOMAIN user \cup {"passwordHash"} |->
                                IF f = "passwordHash" THEN password ELSE user[f]]
            IN  /\ storage' = [storage EXCEPT
                       !.quizAppUsersDB = Json(JArr(Append(users.a, userForDb))),
                       !.quizAppUserSession = Json(JObj(user))]
                /\ Return(user)
    /\ UNCHANGED <<env, impl, requests, responses, primaryError, parked, app, view, calls, now>>

\* signUp(name, email, password)
signUp(name, email, password) ==
    /\ pc = "idle"
    /\ op' = "signUp"
    /\ args' = [name |-> name, email |-> email, password |-> password]
    /\ LET users == getUsersDB(storage) IN
       IF users.t # "arr" THEN Raise(TypeErrorMsg) /\ UNCHANGED storage
       ELSE IF findUser(users.a, email) # {}
               THEN Raise("An account with this email already exists.") /\ UNCHANGED storage
       ELSE LET user == newUser(name, email, now)
                userForDb == [f \in DOMAIN user \cup {"passwordHash"} |->
                                IF f = "passwordHash" THEN password ELSE user[f]]
            IN  /\ storage' = [storage EXCEPT
                       !.quizAppUsersDB = Json(JArr(Append(users.a, userForDb))),
                       !.quizAppUserSession = Json(JObj(user))]
                /\ Return(user)
    /\ UNCHANGED <<env, impl, requests, responses, primaryError, parked, app, view, calls, now>>

\* signIn(email, password)
signIn(email, password) ==
    /\ pc = "idle"
    /\ op' = "signIn"
    /\ args' = [email |-> email, password |-> password]
    /\ LET users == getUsersDB(storage) IN
       IF users.t # "arr" THEN Raise(TypeErrorMsg) /\ UNCHANGED storage
       ELSE IF findUser(users.a, email) = {}
               THEN Raise("Invalid email or password.") /\ UNCHANGED storage
       ELSE LET userInDb == users.a[CHOOSE i \in findUser(users.a, email) :
                                      \A j \in findUser(users.a, email) : i <= j]
                sessionUser == [ id |-> userInDb.id, name |-> userInDb.name,
                                 email |-> userInDb.email, picture |-> userInDb.picture ]
            IN  IF userInDb.passwordHash # password
                   THEN Raise("Invalid email or password.") /\ UNCHANGED storage
                   ELSE /\ storage' = [storage EXCEPT !.quizAppUserSession = Json(JObj(sessionUser))]
                        /\ Return(sessionUser)
    /\ UNCHANGED <<env, impl, requests, responses, primaryError, parked, app, view, calls, now>>

\* signOut()
signOut ==
    /\ pc = "idle"
    /\ storage' = [storage EXCEPT !.quizAppUserSession = JNull]
    /\ UNCHANGED <<env, impl, callVars, parked, app, view, calls, now>>

\* getCurrentUser(): the stored session, or null
getCurrentUser(st) ==
    LET userJSON == st.quizAppUserSession IN
    IF userJSON = JNull THEN JNull
    ELSE IF ~JSONparse(userJSON).ok THEN JNull
    ELSE JSONparse(userJSON).v

\* what the login form submits: emails differing in case and not, passwords
Credentials ==
    [ name : {"Ravi K"}, email : {"asha@x.in", "Asha@X.in", "ravi@x.in"},
      password : {"pw-1", "pw-2"} ]

NextAuth ==
    \/ \E c \in Credentials : signUp(c.name, c.email, c.password)
    \/ \E c \in Credentials : signIn(c.email, c.password)
    \/ signOut
    \/ callerContinues
    \/ now = 0 /\ timePasses(MaxClock)

\* the app opened in one environment, no account yet
InitAuth == Init /\ env = [API_KEY |-> "key-a", VITE_API_KEY |-> ""]

SpecAuth == InitAuth /\ [][NextAuth]_vars

-----------------------------------------------------------------------------
(* Properties *)

Ended == pc \in {"returned", "thrown"}
IsQuizCall == op = "generateQuiz"
IsEvaluationCall == op = "evaluateAnswer"
QuizAttempt(i) ==
    IF impl = "current" THEN attempt(responses[i], args.questionType)
    ELSE legacyAttempt(responses[i], args.questionType)

\* C1: when the primary attempt of generateQuiz failed and the secondary
\* succeeded, the call has returned the secondary's validated records and
\* has thrown nothing.
C1_FallbackTransparent ==
    (IsQuizCall /\ Len(responses) = 2 /\ ~QuizAttempt(1).ok /\ QuizAttempt(2).ok)
        => /\ pc = "returned"
           /\ error = NoError
           /\ result = QuizAttempt(2).v

C1_Witness ==
    /\ IsQuizCall /\ pc = "returned" /\ Len(responses) = 2
    /\ responses[1].kind = "reject"
    /\ Len(result) = MaxItems

\* C2: when both attempts of generateQuiz failed, the thrown message is not
\* empty and carries the secondary failure's message when that is not empty,
\* the primary's only when the secondary's is empty.
C2_BothFailMessage ==
    (IsQuizCall /\ Len(responses) = 2 /\ ~QuizAttempt(1).ok /\ ~QuizAttempt(2).ok)
        => LET m1 == QuizAttempt(1).message
               m2 == QuizAttempt(2).message
               Carrying(m) == GenerationFailedPrefix \o m \o GenerationFailedSuffix
           IN  /\ pc = "thrown"
               /\ error # ""
               /\ m2 # "" => error = Carrying(m2)
               /\ (m2 = "" /\ m1 # "") => error = Carrying(m1)
               /\ (m1 # m2 /\ error = Carrying(m1)) => m2 = ""

C2_Witness ==
    /\ IsQuizCall /\ pc = "thrown" /\ Len(responses) = 2
    /\ responses[1] = Rejected("quota exceeded")
    /\ responses[2] = Garbage
    /\ error = GenerationFailedPrefix \o SyntaxErrorMsg \o GenerationFailedSuffix

\* C4: one generateQuiz call issues at most two requests; the second goes to
\* the secondary model, only after the primary attempt has failed, with the
\* prompt and configuration of the first; there is never a third.
C4_AtMostTwoRequests ==
    IsQuizCall =>
        /\ Len(requests) <= 2
        /\ Len(requests) >= 1 => requests[1].model \in {PrimaryModel, LegacyQuizModel}
        /\ Len(requests) = 2 =>
              /\ Len(responses) >= 1
              /\ ~QuizAttempt(1).ok
              /\ requests[1].model = PrimaryModel
              /\ requests[2].model = SecondaryModel
              /\ requests[2].contents = requests[1].contents
              /\ requests[2].config = requests[1].config

C4_Witness ==
    /\ IsQuizCall /\ pc = "thrown" /\ Len(requests) = 2 /\ Len(responses) = 2

\* a reply that parses as JSON, to a value other than null, and has no
\* top-level 'questions' array
LacksQuestions(r) ==
    r.kind = "text" /\ r.parses /\ r.value # JNull /\ Get(r.value, "questions").t # "arr"
InvalidFormatError == GenerationFailedPrefix \o InvalidFormatMsg \o GenerationFailedSuffix

\* C3 as stated: a reply without a 'questions' array, from either model, makes
\* the generateQuiz with the fallback fail with the invalid-response-format
\* generation error.
C3_AsStated ==
    (IsQuizCall /\ impl = "current" /\ Ended
        /\ \E i \in 1..Len(responses) : LacksQuestions(responses[i]))
        => pc = "thrown" /\ error \in {InvalidFormatError, InvalidFormatMsg}

\* C3 amended: such a reply fails the call with the generation error carrying
\* the invalid-format message when the secondary model sent it; from the
\* primary model the error is caught, the same request goes to the secondary
\* model, and the call ends as the secondary attempt decides.
C3_InvalidFormat ==
    (IsQuizCall /\ impl = "current" /\ Ended) =>
        /\ (Len(responses) = 2 /\ LacksQuestions(responses[2]))
              => pc = "thrown" /\ error = InvalidFormatError
        /\ (Len(responses) >= 1 /\ LacksQuestions(responses[1]))
              => /\ Len(requests) = 2 /\ Len(responses) = 2
                 /\ primaryError = InvalidFormatMsg
                 /\ QuizAttempt(2).ok => (pc = "returned" /\ result = QuizAttempt(2).v)
                 /\ ~QuizAttempt(2).ok =>
                       (pc = "thrown" /\ error = generationFailedMessage(QuizAttempt(2).message,
                                                                         InvalidFormatMsg))

C3_Witness ==
    /\ IsQuizCall /\ impl = "current" /\ pc = "thrown"
    /\ Len(responses) = 2
    /\ responses[1] = Json(JObj([questions |-> JStr("none")]))
    /\ responses[2] = Json(JObj(<<>>))
    /\ error = InvalidFormatError

\* C5: every returned record has the requested questionType as its type.
C5_TypeIsRequested ==
    (IsQuizCall /\ pc = "returned")
        => \A i \in 1..Len(result) : result[i].type = args.questionType

C5_Witness ==
    /\ IsQuizCall /\ pc = "returned" /\ args.questionType = "MCQ"
    /\ responses[Len(responses)] = Json(JObj([questions |-> JArr(<<FullElement>>)]))
    /\ Get(FullElement, "type") = JStr("Long")
    /\ result[1].type = "MCQ"

\* the marks table of the claim
C6_Table(kind) ==
    CASE kind \in {"MCQ", "FillBlanks"} -> 1
      [] kind = "VeryShort" -> 2
      [] kind = "Short" -> 3
      [] kind \in {"CaseBased", "ExtractBased"} -> 4
      [] kind = "Long" -> 5
      [] OTHER -> 1

\* C6: every record returned by generateQuiz has marks equal to the table
\* value of the requested kind, whatever marks the reply carried.
C6_MarksFromTable ==
    (IsQuizCall /\ pc = "returned")
        => \A i \in 1..Len(result) :
              /\ "marks" \in DOMAIN result[i]
              /\ result[i].marks = C6_Table(args.questionType)

NoCredential == env.API_KEY = "" /\ env.VITE_API_KEY = ""
ConfigurationErrors == {ApiKeyMissingMsg, LegacyApiKeyMissingMsg}

\* C7 as stated: without a credential every entry point, extractTextFromPdf
\* included, fails with a configuration error and has issued no request.
C7_AsStated ==
    (NoCredential /\ op # "none" /\ Ended)
        => pc = "thrown" /\ error \in ConfigurationErrors /\ requests = <<>>

\* C7 amended: without a credential generateQuiz and evaluateAnswer fail with a
\* configuration error before any request is issued; extractTextFromPdf reads
\* no credential: it issues no request and ends as the file decides.
C7_NoCredential ==
    NoCredential =>
        /\ (IsQuizCall \/ IsEvaluationCall)
              => /\ pc = "thrown"
                 /\ error = IF impl = "current" THEN ApiKeyMissingMsg ELSE LegacyApiKeyMissingMsg
                 /\ requests = <<>> /\ responses = <<>>
        /\ op = "extractTextFromPdf"
              => /\ requests = <<>>
                 /\ Ended => error \notin ConfigurationErrors
                 /\ (Ended /\ args.read = "ok" /\ args.parses) => pc = "returned"

C7_Witness ==
    /\ NoCredential /\ IsEvaluationCall /\ impl = "current"
    /\ pc = "thrown" /\ error = ApiKeyMissingMsg /\ requests = <<>>

\* C8: generateQuiz returns one record for every element of the accepted
\* reply's 'questions' array, in the array's order, or throws and returns
\* nothing; no other result is ever visible.
C8_NoPartialResult ==
    IsQuizCall =>
        /\ pc = "returned" =>
              LET accepted == responses[Len(responses)]
                  qs == Get(accepted.value, "questions")
              IN  /\ accepted.kind = "text" /\ accepted.parses /\ qs.t = "arr"
                  /\ Len(result) = Len(qs.a)
                  /\ \A i \in 1..Len(qs.a) : result[i].question = Get(qs.a[i], "question")
        /\ pc # "returned" => result = NoValue
        /\ pc = "thrown" => error # NoError

C8_Witness ==
    /\ IsQuizCall /\ pc = "returned"
    /\ responses[Len(responses)] = Json(JObj([questions |-> JArr(<<SparseElement, FullElement>>)]))
    /\ Len(result) = 2
    /\ result[1].question = JStr("Q2") /\ result[2].question = JStr("Q1")

\* C9: every result returned by evaluateAnswer has 0 <= score <= maxMarks.
C9_ScoreWithinRange ==
    (IsEvaluationCall /\ pc = "returned"
        /\ Get(result, "score").t = "num" /\ Get(result, "maxMarks").t = "num")
        => /\ 0 <= Get(result, "score").n
           /\ Get(result, "score").n <= Get(result, "maxMarks").n

\* C10: evaluateAnswer does not clamp: the score of the returned result is
\* the score field of the parsed reply, also above maxMarks.
C10_ScoreUnclamped ==
    (IsEvaluationCall /\ pc = "returned")
        => /\ responses[1].kind = "text" /\ responses[1].parses
           /\ Get(result, "score") = Get(responses[1].value, "score")

C10_Witness ==
    /\ IsEvaluationCall /\ pc = "returned"
    /\ Get(result, "score").t = "num" /\ Get(result, "maxMarks").t = "num"
    /\ Get(result, "score").n > Get(result, "maxMarks").n
    /\ Get(result, "score").n > args.maxMarks


RequiredFields == {"score", "maxMarks", "mistakes", "feedback"}
HasRequiredFields(v) == v.t = "obj" /\ RequiredFields \subseteq DOMAIN v.o
EvaluationErrors ==
    {evaluationFailedMessage(m) : m \in RejectMessages \cup {SyntaxErrorMsg, TypeErrorMsg}}
    \cup {LegacyEvaluateFailedMsg}

\* C11: evaluateAnswer fails with an evaluation error whenever the reply does
\* not parse or lacks one of score, maxMarks, mistakes, feedback, and returns
\* a result only when all four are present.
C11_RequiredFields ==
    (IsEvaluationCall /\ Ended /\ Len(responses) = 1) =>
        LET r == responses[1] IN
        /\ (r.kind = "text" /\ (~r.parses \/ ~HasRequiredFields(r.value)))
              => pc = "thrown" /\ error \in EvaluationErrors
        /\ pc = "returned" => HasRequiredFields(result)

\* C12: one evaluateAnswer call issues one request, to the one evaluation
\* model, and none when the credential is missing; it never asks a second
\* model: when the request fails the call fails.
C12_SingleRequest ==
    IsEvaluationCall =>
        /\ Len(requests) <= 1 /\ Len(responses) <= 1
        /\ Len(requests) = 0 <=> (pc = "thrown" /\ error \in ConfigurationErrors)
        /\ Len(requests) = 1 =>
              requests[1].model = IF impl = "current" THEN EvaluationModel
                                  ELSE LegacyEvaluationModel
        /\ (Len(responses) = 1 /\ ~evaluationOutcome(responses[1]).ok)
              => pc = "thrown" /\ error \in EvaluationErrors

C12_Witness ==
    /\ IsEvaluationCall /\ pc = "thrown"
    /\ Len(requests) = 1
    /\ responses = <<Rejected("quota exceeded")>>
    /\ error = "Evaluation failed: quota exceeded"

\* C13: the maxMarks of the returned EvaluationResult equals the maxMarks
\* argument of the call.
C13_MaxMarksEchoed ==
    (IsEvaluationCall /\ pc = "returned")
        => Get(result, "maxMarks") = JNum(args.maxMarks)

DefaultedFields == {"correctAnswer", "modelAnswer", "context", "explanation"}
Missing(v) == v.t \in {"undefined", "null"}

\* C15: in every returned record options is the empty sequence when the
\* element has none, the four text fields are "" when absent or null in the
\* element, and none of the five is undefined or null.
C15_Defaults ==
    (IsQuizCall /\ pc = "returned") =>
        LET qs == Get(responses[Len(responses)].value, "questions").a IN
        \A i \in 1..Len(result) :
            /\ Missing(Get(qs[i], "options")) => result[i].options = JArr(<<>>)
            /\ ~Missing(result[i].options)
            /\ \A f \in DefaultedFields :
                  /\ Missing(Get(qs[i], f)) => result[i][f] = JStr("")
                  /\ ~Missing(result[i][f])

C15_Witness ==
    /\ IsQuizCall /\ pc = "returned"
    /\ responses[Len(responses)] = Json(JObj([questions |-> JArr(<<SparseElement>>)]))
    /\ Get(SparseElement, "correctAnswer") = JNull
    /\ "options" \notin DOMAIN SparseElement.o
    /\ result[1].correctAnswer = JStr("") /\ result[1].options = JArr(<<>>)

\* C19: the only failure not surfaced is a primary failure followed by a
\* successful secondary attempt; a failed last attempt of generateQuiz, a
\* failed evaluation, a missing credential and a failed extraction each end
\* the call with a thrown error.
C19_NothingElseSwallowed ==
    /\ (IsQuizCall /\ Len(responses) = 2 /\ QuizAttempt(2).ok)
          => pc = "returned" /\ error = NoError
    /\ (IsQuizCall /\ impl = "current" /\ Len(responses) = 1 /\ ~QuizAttempt(1).ok)
          => pc = "awaitSecondary" /\ primaryError = QuizAttempt(1).message
    /\ (IsQuizCall /\ Len(responses) = (IF impl = "current" THEN 2 ELSE 1)
          /\ ~QuizAttempt(Len(responses)).ok)
          => pc = "thrown" /\ error \notin {NoError, ""}
    /\ (IsEvaluationCall /\ Len(responses) = 1 /\ ~evaluationOutcome(responses[1]).ok)
          => pc = "thrown" /\ error \in EvaluationErrors
    /\ ((IsQuizCall \/ IsEvaluationCall) /\ requests = <<>>)
          => pc = "thrown" /\ error \in ConfigurationErrors
    /\ (op = "extractTextFromPdf" /\ Ended /\ ~extractOutcome(args).ok)
          => pc = "thrown" /\ error = extractOutcome(args).message

C19_Witness ==
    /\ op = "extractTextFromPdf" /\ pc = "thrown"
    /\ args.read = "ok" /\ ~args.parses
    /\ error = "Failed to parse PDF: Invalid PDF structure"


-----------------------------------------------------------------------------
(* generateQuiz on source texts around the 30,000 character limit *)

RECURSIVE Repeat(_, _)
\* s written n times
Repeat(s, n) ==
    IF n = 0 THEN ""
    ELSE LET h == Repeat(s, n \div 2) IN IF n % 2 = 0 THEN h \o h ELSE h \o h \o s

\* a text of n characters whose characters differ from place to place
TextOfLength(n) == Substring(Repeat("0123456789", n \div 10 + 1), 0, n)

LongTextLengths ==
    {0, 7, SourceTextLimit - 1, SourceTextLimit, SourceTextLimit + 1, 2 * SourceTextLimit}

LongQuizArgs ==
    {[ pdfText |-> TextOfLength(n), numQuestions |-> 1, difficulty |-> "Easy",
       questionType |-> qt, examContext |-> ec ] :
        n \in LongTextLengths, qt \in {"MCQ", "Long", "CaseBased", "Brief"},
        ec \in {"", "CBSE Class 10"}}

LongReplies == {Rejected("quota exceeded"), Json(JObj([questions |-> JArr(<<FullElement>>)]))}

NextLong ==
    \/ \E a \in LongQuizArgs : generateQuiz(a)
    \/ \E r \in LongReplies : primaryReplies(r)
    \/ \E r \in LongReplies : secondaryReplies(r)
    \/ \E a \in LongQuizArgs : legacyGenerateQuiz(a)
    \/ \E r \in LongReplies : legacyQuizReplies(r)
    \/ callerContinues

SpecLong == Init /\ [][NextLong]_vars

\* the prompt of the call in progress with an empty source text
BarePrompt ==
    IF impl = "current" THEN quizPrompt([args EXCEPT !.pdfText = ""])
    ELSE legacyQuizPrompt([args EXCEPT !.pdfText = ""])
PromptTail == " ---"
\* the characters of a transmitted prompt between the template's two parts
EmbeddedIn(prompt) ==
    Substring(prompt, Len(BarePrompt) - Len(PromptTail), Len(prompt) - Len(PromptTail))
Shorter(a, b) == IF a < b THEN a ELSE b

\* the embedded source text of request i is the first 30,000 characters of pdfText
EmbedsPrefix(i) ==
    LET prompt == requests[i].contents
        e == EmbeddedIn(prompt)
    IN  /\ Len(e) <= SourceTextLimit
        /\ Len(e) = Shorter(Len(args.pdfText), SourceTextLimit)
        /\ e = Substring(args.pdfText, 0, Len(e))
        /\ Len(prompt) = Len(BarePrompt) + Len(e)
        /\ Substring(prompt, 0, Len(BarePrompt) - Len(PromptTail))
              = Substring(BarePrompt, 0, Len(BarePrompt) - Len(PromptTail))

\* C14 as stated: the embedded text is the first 30,000 characters of pdfText
\* and the transmitted payload never exceeds 30,000 characters.
C14_AsStated ==
    IsQuizCall => \A i \in 1..Len(requests) :
        EmbedsPrefix(i) /\ Len(requests[i].contents) <= SourceTextLimit

\* C14 amended: the embedded text is the first 30,000 characters of pdfText
\* (at most 30,000 long, a prefix of pdfText); the transmitted prompt is the
\* request's template around it, as long as the template plus that text.
C14_Truncation ==
    IsQuizCall => \A i \in 1..Len(requests) : EmbedsPrefix(i)

C14_Witness ==
    /\ IsQuizCall /\ Len(requests) = 2
    /\ Len(args.pdfText) = 2 * SourceTextLimit
    /\ Len(EmbeddedIn(requests[2].contents)) = SourceTextLimit
    /\ Len(requests[2].contents) > SourceTextLimit

-----------------------------------------------------------------------------
\* the suspended handlers that asked for an evaluation
EvaluationCalls ==
    {h \in BagToSet(calls) : h.handler = "handleUploadAndEvaluate" /\ h.file.readable}

\* C16: the maxMarks the quiz view passes to evaluateAnswer is the marks field
\* of the question being evaluated, which is the table value of its kind
C16_MaxMarksOfQuestion ==
    \A h \in EvaluationCalls :
        /\ h.args.maxMarks = getMarksForType(h.question.type)
        /\ "marks" \in DOMAIN h.question => h.args.maxMarks = h.question.marks

-----------------------------------------------------------------------------
\* the operations on the quiz being taken
QuizOperation ==
    \/ \E answer \in Answers : handleAnswerSelect(answer)
    \/ handleNextQuestion
    \/ handlePreviousQuestion
    \/ handleToggleOverview
    \/ \E index \in 0..(MaxItems - 1) : handleJumpToQuestion(index)
    \/ handleTimeUp
    \/ \E f \in AppPhotos : handleFileChange(f)
    \/ handleUploadAndEvaluate
    \/ \E h \in BagToSet(calls), r \in AppEvaluationReplies : evaluationSettles(h, <<r>>)

\* the steps that put another list in quizData: a generation that succeeded,
\* the start of a saved quiz, a reset, and the App mounting on a page load
ReplacesQuiz ==
    \/ \E h \in BagToSet(calls), rs \in AppQuizReplies :
          generationSettles(h, rs) /\ generationOutcome(impl, env, h.file, h.config, rs).ok
    \/ \E k \in 1..MaxLibrary : handleStartQuiz(k)
    \/ onReset
    \/ handleNavigate("setup")
    \/ reload

\* C17: no operation on the quiz being taken (select answer, next, previous,
\* jump, time up, evaluate answer) changes the question list or a field of a
\* question; the list changes only when it is replaced as a whole
C17_QuestionsNeverMutated ==
    [][ /\ QuizOperation => app'.quizData = app.quizData
        /\ app'.quizData # app.quizData => ReplacesQuiz ]_vars

\* a quiz in which an answer was evaluated and the user moved on
C17_Witness ==
    /\ QuizShown(app)
    /\ app.currentQuestionIndex = 1
    /\ app.userAnswers[1] = JStr("Uploaded Answer")

-----------------------------------------------------------------------------
\* the messages of the three kinds of failure of a generation
ExtractionErrors == {"Failed to read file", "Error reading file"}
GenerationErrors ==
    {LegacyGenerateFailedMsg, generationFailedMessage("quota exceeded", "quota exceeded")}

\* C18: when the generation fails, the app goes to 'setup' (where a generation
\* can be started), the error shown is the message of the thrown error, the
\* quiz data are as they were and nothing is saved to the library
C18_GenerationFailure ==
    [][ \A h \in BagToSet(calls), rs \in AppQuizReplies :
          LET out == generationOutcome(impl, env, h.file, h.config, rs) IN
          h.handler = "handleGenerateQuiz" /\ generationSettles(h, rs) /\ ~out.ok
             => /\ out.message \in ExtractionErrors \cup ConfigurationErrors \cup GenerationErrors
                /\ app'.appState = "setup"
                /\ app'.error = JStr(out.message)
                /\ app'.quizData = app.quizData
                /\ storage'.communityQuizzes = storage.communityQuizzes ]_vars

\* a generation failed while a saved quiz was being taken
C18_Witness ==
    /\ app.appState = "setup"
    /\ app.error \in {JStr(m) : m \in GenerationErrors}
    /\ Len(app.quizData) > 0

-----------------------------------------------------------------------------
\* the requests a call issues, as its arguments alone determine them
OwnRequests(c) ==
    IF c.op = "generateQuiz"
       THEN << quizRequest(PrimaryModel, quizPrompt(c.args)),
               quizRequest(SecondaryModel, quizPrompt(c.args)) >>
       ELSE << evaluationRequest(EvaluationModel, c.args.mimeType, c.args) >>

\* what a call gives, as its arguments and its own replies alone determine it
OwnOutcome(c) ==
    IF c.op = "generateQuiz" THEN generateQuizOutcome(env, c.args, c.responses)
    ELSE evaluateAnswerOutcome(env, c.responses)

\* the call c has issued and has given what its own arguments and replies determine
Independent(c) ==
    c.op \in {"generateQuiz", "evaluateAnswer"} =>
        /\ Len(c.requests) <= Len(OwnRequests(c))
        /\ c.requests = SubSeq(OwnRequests(c), 1, Len(c.requests))
        /\ c.pc = "returned" => OwnOutcome(c).ok /\ c.result = OwnOutcome(c).v
        /\ c.pc = "thrown" => ~OwnOutcome(c).ok /\ c.error = OwnOutcome(c).message

\* C20: with two calls of generateQuiz and evaluateAnswer in progress at once,
\* under any interleaving of their requests and replies, each call issues the
\* requests and gives the result or the error that its own arguments and its
\* own replies determine
C20_CallsIndependent == Independent(thisCall) /\ Independent(parked)

\* a generateQuiz has failed on both models while another generateQuiz, whose
\* primary failure was a different one, waits for its fallback
C20_Witness ==
    /\ op = "generateQuiz" /\ pc = "thrown" /\ Len(responses) = 2
    /\ parked.op = "generateQuiz" /\ parked.pc = "awaitSecondary"
    /\ parked.primaryError # primaryError
    /\ parked.args # args

-----------------------------------------------------------------------------
Waiting == pc \in {"awaitPrimary", "awaitSecondary", "awaitEvaluation"}

\* C21: when every request settles, a generateQuiz call that is waiting for
\* a reply eventually has returned a question list or thrown an error, having
\* issued at most two requests, and an evaluateAnswer call that is waiting
\* eventually has returned a result or thrown, having issued one request.
C21_Terminates ==
    /\ (IsQuizCall /\ Waiting) ~>
           /\ IsQuizCall /\ Len(requests) \in 1..2
           /\ \/ /\ pc = "returned" /\ error = NoError
                 /\ \A i \in 1..Len(result) : result[i].type = args.questionType
              \/ pc = "thrown" /\ result = NoValue /\ error # NoError
    /\ (IsEvaluationCall /\ Waiting) ~>
           /\ IsEvaluationCall /\ Len(requests) = 1
           /\ \/ pc = "returned" /\ error = NoError /\ result.t # "none"
              \/ pc = "thrown" /\ result = NoValue /\ error # NoError

\* a generateQuiz call that needed its second request has returned
C21_Witness ==
    /\ IsQuizCall /\ pc = "returned" /\ Len(requests) = 2 /\ Len(result) = 2

-----------------------------------------------------------------------------
\* a suspended handleGenerateQuiz settles in this step
GenerationCompletes ==
    \E h \in BagToSet(calls), rs \in AppQuizReplies : generationSettles(h, rs)

\* C22: a generation that completes when the app is no longer in 'loading'
\* changes nothing of the app state: a quiz that is running keeps its
\* questions, answers and index, and a failure does not move the app to
\* 'setup'.
C22_LateCompletionIgnored ==
    [][(GenerationCompletes /\ app.appState # "loading") => app' = app]_vars

-----------------------------------------------------------------------------
\* the suspended handleUploadAndEvaluate h gets its result or its error in
\* this step
EvaluationCompletes(h) ==
    \E r \in AppEvaluationReplies : evaluationSettles(h, <<r>>)

\* the questions that are answered after this step and were not before it
NewlyAnswered ==
    {i \in DOMAIN app'.userAnswers :
        /\ app'.userAnswers[i] # JNull
        /\ i \in DOMAIN app.userAnswers => app.userAnswers[i] = JNull}

\* C23: an evaluation that completes is put on screen only when the question
\* on screen is the one it was requested for, and it marks no other
\* question as answered.
C23_ResultForItsQuestion ==
    [][\A h \in BagToSet(calls) :
          EvaluationCompletes(h) =>
             /\ view'.evaluation # view.evaluation =>
                    /\ QuizShown(app')
                    /\ app'.currentQuestionIndex = h.currentQuestionIndex
                    /\ question(app') = h.question
             /\ NewlyAnswered \subseteq {h.currentQuestionIndex + 1}]_vars

-----------------------------------------------------------------------------
\* the steps that end a quiz attempt or begin one: the quiz is reset, a quiz
\* of the library is started, a generation completes, the page is loaded
EndsOrBeginsAttempt ==
    \/ onReset
    \/ handleNavigate("setup")
    \/ \E k \in 1..MaxLibrary : handleStartQuiz(k)
    \/ GenerationCompletes
    \/ reload

\* C24: within a quiz attempt an answer that is not null stays as it is:
\* no step other than a reset or the start of a quiz changes it or removes it.
C24_AnsweredMonotonic ==
    [][EndsOrBeginsAttempt \/
       \A i \in DOMAIN app.userAnswers :
          app.userAnswers[i] # JNull =>
             /\ i \in DOMAIN app'.userAnswers
             /\ app'.userAnswers[i] = app.userAnswers[i]]_vars

-----------------------------------------------------------------------------
\* C25: while a quiz with questions is being taken or its results are shown,
\* there is one answer slot for each question and the index points at a
\* question.
C25_ListsAligned ==
    (app.appState \in {"quiz", "results"} /\ Len(app.quizData) > 0) =>
        /\ Len(app.userAnswers) = Len(app.quizData)
        /\ app.currentQuestionIndex \in 0..(Len(app.quizData) - 1)

-----------------------------------------------------------------------------
\* the questions whose answers the quiz view has shown as correct
ShownCorrect ==
    {i \in DOMAIN app.quizData : shownCorrect(impl, app.quizData[i], app.userAnswers[i])}

\* C26: on the results page the score is the number of questions whose
\* answer the quiz view showed as correct; it is at most the number of
\* questions, and unanswered and subjective questions add nothing to it.
C26_ScoreIsShownCorrect ==
    (app.appState = "results" /\ Len(app.userAnswers) = Len(app.quizData)) =>
        /\ score(app.quizData, app.userAnswers) = Cardinality(ShownCorrect)
        /\ score(app.quizData, app.userAnswers) <= Len(app.quizData)
        /\ \A i \in DOMAIN app.quizData :
              (app.userAnswers[i] = JNull \/ isSubjective(app.quizData[i])) =>
                 score(app.quizData, app.userAnswers)
                    = score(app.quizData, [app.userAnswers EXCEPT ![i] = JNull])

-----------------------------------------------------------------------------
\* the questions qs are the questions ps, property by property
SameQuestions(ps, qs) ==
    /\ Len(ps) = Len(qs)
    /\ \A i \in DOMAIN ps :
          /\ ps[i].type = qs[i].type
          /\ \A f \in JsonFields \cup {"marks"} : Field(ps[i], f) = Field(qs[i], f)

\* the progress entry holds the quiz as the app has it
ProgressIsCurrent ==
    /\ storage.pdfQuizProgress # JNull
    /\ JSONparse(storage.pdfQuizProgress).ok
    /\ LET p == JSONparse(storage.pdfQuizProgress).v.o IN
          /\ SameQuestions(p.quizData, app.quizData)
          /\ p.userAnswers = app.userAnswers
          /\ p.currentQuestionIndex = app.currentQuestionIndex
          /\ p.quizName = app.currentQuizName
          /\ p.quizExpiryTime = app.quizExpiryTime

\* C27: the progress entry exists exactly while a quiz with questions is
\* being taken and then holds the current questions, answers, index, name
\* and expiry time; in every other state it is absent; loading the page
\* while it exists gives the quiz state it holds.
C27_ProgressStored ==
    /\ [](IF QuizShown(app) THEN ProgressIsCurrent ELSE storage.pdfQuizProgress = JNull)
    /\ [][(reload /\ storage.pdfQuizProgress # JNull) =>
             /\ app'.appState = "quiz"
             /\ SameQuestions(app'.quizData, app.quizData)
             /\ app'.userAnswers = app.userAnswers
             /\ app'.currentQuestionIndex = app.currentQuestionIndex
             /\ app'.currentQuizName = app.currentQuizName
             /\ app'.quizExpiryTime = app.quizExpiryTime
             /\ storage' = storage]_vars

\* a quiz in progress at its second question, one answer given, with its
\* progress entry
C27_Witness ==
    /\ QuizShown(app) /\ app.currentQuestionIndex = 1
    /\ app.userAnswers[1] # JNull
    /\ app.quizExpiryTime # JNull
    /\ ProgressIsCurrent

-----------------------------------------------------------------------------
\* C28: a quiz with a time limit is not on screen later than one tick after
\* its expiry time (onTimeUp has moved the app to 'results' by then), the
\* time shown is never negative, and a quiz without a time limit has no
\* timer that could end it.
C28_TimeUpWithinTick ==
    /\ (QuizShown(app) /\ Truthy(app.quizExpiryTime)) =>
          now <= app.quizExpiryTime.n + TickPeriod
    /\ view.timeLeft # JNull => view.timeLeft.n >= 0
    /\ (QuizShown(app) /\ ~Truthy(app.quizExpiryTime)) =>
          view.timeLeft = JNull /\ view.timerSetAt = JNull

-----------------------------------------------------------------------------
\* the library after this step is the library before it, with at most one
\* quiz more, at the front
Prepends ==
    LET before == getQuizzes(storage)
        after == getQuizzes(storage')
    IN  \/ after = before
        \/ /\ Len(after) = Len(before) + 1
           /\ SubSeq(after, 2, Len(after)) = before
           /\ after[1].name = app'.currentQuizName

\* C29: every save puts the new quiz at the front of the library and leaves
\* the quizzes before it as they were, in their order; every quiz of the
\* library has an id of its own; a stored value that is missing, unparsable
\* or not an array reads as the empty library.
C29_LibraryGrowsAtFront ==
    /\ [][Prepends]_vars
    /\ [](LET quizzes == getQuizzes(storage) IN
          /\ \A i, j \in DOMAIN quizzes : quizzes[i].id = quizzes[j].id => i = j
          /\ (\/ storage.communityQuizzes = JNull
              \/ ~JSONparse(storage.communityQuizzes).ok
              \/ JSONparse(storage.communityQuizzes).v.t # "arr") => quizzes = <<>>)

-----------------------------------------------------------------------------
\* the accounts of the user store
Accounts == getUsersDB(storage).a

\* C30: no two accounts have the same email up to case; a signUp with an
\* email that has an account throws and changes neither the store nor the
\* session; a signIn that throws leaves the session as it was; the session
\* is a user without a password.
C30_AccountsDistinct ==
    /\ [](\A i, j \in DOMAIN Accounts :
            toLowerCase(Accounts[i].email) = toLowerCase(Accounts[j].email) => i = j)
    /\ [](getCurrentUser(storage) # JNull =>
            /\ "passwordHash" \notin DOMAIN getCurrentUser(storage).o
            /\ \A f \in DOMAIN getCurrentUser(storage).o, c \in Credentials :
                  getCurrentUser(storage).o[f] # c.password)
    /\ [][\A c \in Credentials :
            (signUp(c.name, c.email, c.password) /\ findUser(Accounts, c.email) # {}) =>
               /\ pc' = "thrown"
               /\ storage' = storage]_vars
    /\ [][\A c \in Credentials :
            (signIn(c.email, c.password) /\ pc' = "thrown") =>
               storage'.quizAppUserSession = storage.quizAppUserSession]_vars

\* two accounts; a signUp with the first one's email in other letters has
\* been refused while the second user is signed in
C30_Witness ==
    /\ Len(Accounts) = 2
    /\ op = "signUp" /\ pc = "thrown"
    /\ args.email # Accounts[1].email
    /\ toLowerCase(args.email) = toLowerCase(Accounts[1].email)
    /\ getCurrentUser(storage) # JNull
    /\ getCurrentUser(storage).o.id = Accounts[2].id

====
